---- MODULE Spec2Model ----
\* Verification model of gdiff's diff engine (internal/diff/engine.go).
\* A line is a sequence of runes (one-character strings); indices of opcodes,
\* tokens and highlights are 0-based as in the Go code.
EXTENDS Integers, Sequences, FiniteSets, TLC

\* ---------------------------------------------------------------- bounds
\* Longest line list handed to DiffLines.
MaxLines == 2

\* ---------------------------------------------------------------- helpers
\* A max with its branches swapped: it returns the smaller argument.
max_swapped(a, b) == IF a > b THEN b ELSE a

\* max returns the maximum of two integers.
max(a, b) == IF a > b THEN a ELSE b

\* Go slice s[lo:hi] of a sequence, 0-based and half-open.
Slice(s, lo, hi) == IF hi <= lo THEN << >> ELSE SubSeq(s, lo + 1, hi)

\* The sequence s with its elements evaluated (TLC evaluates [i \in S |-> e]
\* anew at every application otherwise).
Evaluated(s) == s \o << >>

\* All sequences over S of length at most n.
SeqsUpTo(S, n) == UNION {[1..k -> S] : k \in 0..n}

\* ------------------------------------------------ difflib.SequenceMatcher
\* go-difflib, as used through difflib.NewMatcher(a, b).GetOpCodes().
\* chainB: with autoJunk (always on in NewMatcher) and len(b) >= 200, elements
\* occurring more than len(b)/100 + 1 times are "popular" and left out of b2j.
Popular(b) ==
  IF Len(b) >= 200
    THEN {b[j] : j \in {j \in 1..Len(b) :
            Cardinality({h \in 1..Len(b) : b[h] = b[j]}) > (Len(b) \div 100) + 1}}
    ELSE {}

\* Length of the run of equal, non-popular elements starting at a[i], b[j].
RECURSIVE RunLen(_, _, _, _, _, _)
RunLen(a, b, i, j, ahi, bhi) ==
  IF i < ahi /\ j < bhi /\ a[i + 1] = b[j + 1] /\ b[j + 1] \notin Popular(b)
    THEN 1 + RunLen(a, b, i + 1, j + 1, ahi, bhi)
    ELSE 0

\* Number of equal elements directly before a[i], b[j] (extension to the left).
RECURSIVE ExtendBack(_, _, _, _, _, _)
ExtendBack(a, b, i, j, alo, blo) ==
  IF i > alo /\ j > blo /\ a[i] = b[j]
    THEN 1 + ExtendBack(a, b, i - 1, j - 1, alo, blo)
    ELSE 0

\* Number of equal elements from a[i], b[j] on (extension to the right).
RECURSIVE ExtendFwd(_, _, _, _, _, _)
ExtendFwd(a, b, i, j, ahi, bhi) ==
  IF i < ahi /\ j < bhi /\ a[i + 1] = b[j + 1]
    THEN 1 + ExtendFwd(a, b, i + 1, j + 1, ahi, bhi)
    ELSE 0

\* The longest of the runs `found` (triples <<i, j, length>>), earliest in a and
\* then earliest in b.
bestRun(found) ==
  CHOOSE r \in found : \A q \in found :
    \/ q[3] < r[3]
    \/ q[3] = r[3] /\ q[1] > r[1]
    \/ q[3] = r[3] /\ q[1] = r[1] /\ q[2] >= r[2]

\* The block m grown by `back` elements to the left and `fwd` to the right.
grown(m, back, fwd) == <<m[1] - back, m[2] - back, m[3] + back + fwd>>

\* findLongestMatch, given the non-empty runs of b2j elements in the window: the
\* best run extended on both ends by equal elements; <<alo, blo, 0>>, extended
\* to the right, if there is none.
longestOf(a, b, alo, ahi, blo, bhi, found) ==
  IF found = {}
    THEN <<alo, blo, ExtendFwd(a, b, alo, blo, ahi, bhi)>>
    ELSE grown(bestRun(found),
               ExtendBack(a, b, bestRun(found)[1], bestRun(found)[2], alo, blo),
               ExtendFwd(a, b, bestRun(found)[1] + bestRun(found)[3],
                         bestRun(found)[2] + bestRun(found)[3], ahi, bhi))

\* findLongestMatch
findLongestMatch(a, b, alo, ahi, blo, bhi) ==
  longestOf(a, b, alo, ahi, blo, bhi,
            {r \in {<<i, j, RunLen(a, b, i, j, ahi, bhi)>> :
                      i \in alo..(ahi - 1), j \in blo..(bhi - 1)} : r[3] > 0})

\* matchBlocks: the recursive closure of GetMatchingBlocks; blocksAround is its
\* body once the longest match m of the window is known.
RECURSIVE matchBlocks(_, _, _, _, _, _)
RECURSIVE blocksAround(_, _, _, _, _, _, _)
blocksAround(a, b, alo, ahi, blo, bhi, m) ==
  IF m[3] > 0
    THEN (IF alo < m[1] /\ blo < m[2]
            THEN matchBlocks(a, b, alo, m[1], blo, m[2]) ELSE << >>)
         \o << m >>
         \o (IF m[1] + m[3] < ahi /\ m[2] + m[3] < bhi
               THEN matchBlocks(a, b, m[1] + m[3], ahi, m[2] + m[3], bhi) ELSE << >>)
    ELSE << >>

matchBlocks(a, b, alo, ahi, blo, bhi) ==
  blocksAround(a, b, alo, ahi, blo, bhi, findLongestMatch(a, b, alo, ahi, blo, bhi))

\* Adjacent equal blocks are collapsed into one.
RECURSIVE collapseBlocks(_, _)
collapseBlocks(blocks, cur) ==
  IF blocks = << >>
    THEN (IF cur[3] > 0 THEN << cur >> ELSE << >>)
    ELSE LET m == Head(blocks) IN
         IF cur[1] + cur[3] = m[1] /\ cur[2] + cur[3] = m[2]
           THEN collapseBlocks(Tail(blocks), <<cur[1], cur[2], cur[3] + m[3]>>)
           ELSE (IF cur[3] > 0 THEN << cur >> ELSE << >>)
                \o collapseBlocks(Tail(blocks), m)

\* GetMatchingBlocks without the sentinel block at its end.
GetMatchingBlocks_noSentinel(a, b) ==
  collapseBlocks(matchBlocks(a, b, 0, Len(a), 0, Len(b)), <<0, 0, 0>>)

\* GetMatchingBlocks: the collapsed blocks followed by the sentinel <<la, lb, 0>>.
GetMatchingBlocks(a, b) ==
  collapseBlocks(matchBlocks(a, b, 0, Len(a), 0, Len(b)), <<0, 0, 0>>)
    \o << <<Len(a), Len(b), 0>> >>

OpCode(tag, i1, i2, j1, j2) == [Tag |-> tag, I1 |-> i1, I2 |-> i2, J1 |-> j1, J2 |-> j2]

\* The walk of GetOpCodes over the matching blocks, from position (i, j).
RECURSIVE opCodesFrom(_, _, _)
opCodesFrom(blocks, i, j) ==
  IF blocks = << >> THEN << >>
  ELSE LET m == Head(blocks)
           ai == m[1]
           bj == m[2]
           size == m[3]
           tag == IF i < ai /\ j < bj THEN "r"
                  ELSE IF i < ai THEN "d"
                  ELSE IF j < bj THEN "i"
                  ELSE ""
       IN (IF tag # "" THEN << OpCode(tag, i, ai, j, bj) >> ELSE << >>)
          \o (IF size > 0 THEN << OpCode("e", ai, ai + size, bj, bj + size) >> ELSE << >>)
          \o opCodesFrom(Tail(blocks), ai + size, bj + size)

GetOpCodes(a, b) == opCodesFrom(GetMatchingBlocks(a, b), 0, 0)

\* ------------------------------------------------------------ text, regexp
\* Character classes of the runes that occur in the modelled lines.
SpaceChars == {" "}

LetterChars == {"a", "b", "x"}

DigitChars == {"0", "1", "2"}

HexChars == DigitChars \cup {"a", "b"}

PunctChars == {"=", "!", "<", ">", ":", "&", "|", "+", "-", "."}

TwoCharOps == {<<"=", "=">>, <<"!", "=">>, <<"<", "=">>, <<">", "=">>,
               <<":", "=">>, <<"&", "&">>, <<"|", "|">>}

\* UTF-8 width of a rune: "é" takes two bytes, the other modelled runes one.
ByteLen(c) == IF c = "é" THEN 2 ELSE 1

\* Byte offset of the rune with 0-based index r (the byte length for r = Len).
RECURSIVE ByteOffset(_, _)
ByteOffset(line, r) == IF r = 0 THEN 0 ELSE ByteOffset(line, r - 1) + ByteLen(line[r])

\* utf8.RuneCountInString(line[:byteOff]): the runes that start before byteOff.
RuneCountBefore(line, byteOff) ==
  Cardinality({r \in 1..Len(line) : ByteOffset(line, r - 1) < byteOff})

\* utf8.RuneCountInString(line)
RuneCountInString(line) == RuneCountBefore(line, ByteOffset(line, Len(line)))

\* Number of consecutive runes of class C from 0-based position p on.
RECURSIVE RunOf(_, _, _)
RunOf(line, p, C) ==
  IF p < Len(line) /\ line[p + 1] \in C THEN 1 + RunOf(line, p + 1, C) ELSE 0

\* The regular expressions of the model, by their source text.
defaultTokenPattern == "\\s+|[A-Za-z_][A-Za-z0-9_]*|0x[0-9A-Fa-f]+|\\d+|==|!=|<=|>=|:=|&&|\\|\\||[{}()[\\].,;:+\\-*/&|<>!=]"

LettersPattern == "[a-z]+"

DigitsPattern == "[0-9]+"

CommentPattern == "#.*"

AssignTwoPattern == "=2"

DigitsOptPattern == "[0-9]*"

BadPattern == "("

\* regexp.Compile succeeds on these; BadPattern does not compile.
Compiles(pattern) ==
  pattern \in {defaultTokenPattern, LettersPattern, DigitsPattern, CommentPattern,
               AssignTwoPattern, DigitsOptPattern}

\* The patterns that match the empty string.
MatchesEmpty(pattern) == pattern = DigitsOptPattern

\* Length in runes of the leftmost-first match of pattern that starts at the
\* 0-based rune position p of line; 0 when pattern does not match there, or
\* matches the empty string there.
MatchAt(pattern, line, p) ==
  IF p >= Len(line) THEN 0
  ELSE LET c == line[p + 1] IN
    CASE pattern = defaultTokenPattern ->
           IF c \in SpaceChars THEN RunOf(line, p, SpaceChars)
           ELSE IF c \in LetterChars \cup {"_"}
             THEN 1 + RunOf(line, p + 1, LetterChars \cup DigitChars \cup {"_"})
           ELSE IF c = "0" /\ p + 1 < Len(line) /\ line[p + 2] = "x"
                   /\ RunOf(line, p + 2, HexChars) > 0
             THEN 2 + RunOf(line, p + 2, HexChars)
           ELSE IF c \in DigitChars THEN RunOf(line, p, DigitChars)
           ELSE IF p + 1 < Len(line) /\ <<c, line[p + 2]>> \in TwoCharOps THEN 2
           ELSE IF c \in PunctChars THEN 1
           ELSE 0
      [] pattern = LettersPattern -> RunOf(line, p, LetterChars)
      [] pattern \in {DigitsPattern, DigitsOptPattern} -> RunOf(line, p, DigitChars)
      [] pattern = CommentPattern -> IF c = "#" THEN Len(line) - p ELSE 0
      [] pattern = AssignTwoPattern ->
           IF c = "=" /\ p + 1 < Len(line) /\ line[p + 2] = "2" THEN 2 ELSE 0
      [] OTHER -> 0

\* FindAllStringIndex(line, -1) from position p: the successive non-overlapping
\* matches, as <<start, end>> pairs of BYTE offsets. prevMatchEnd is the end of
\* the previous match (-1 before the first): an empty match right after a match
\* is not delivered, and the scan goes on to the end of the line included.
RECURSIVE FindAllFrom(_, _, _, _)
FindAllFrom(pattern, line, p, prevMatchEnd) ==
  IF p > Len(line) THEN << >>
  ELSE IF MatchAt(pattern, line, p) > 0
    THEN << <<ByteOffset(line, p), ByteOffset(line, p + MatchAt(pattern, line, p))>> >>
         \o FindAllFrom(pattern, line, p + MatchAt(pattern, line, p),
                        p + MatchAt(pattern, line, p))
  ELSE IF MatchesEmpty(pattern)
    THEN (IF p = prevMatchEnd THEN << >>
          ELSE << <<ByteOffset(line, p), ByteOffset(line, p)>> >>)
         \o FindAllFrom(pattern, line, p + 1, p)
  ELSE FindAllFrom(pattern, line, p + 1, prevMatchEnd)

FindAllStringIndex(pattern, line) == FindAllFrom(pattern, line, 0, -1)

\* line[startByte:endByte] as runes.
ByteSlice(line, startByte, endByte) ==
  Slice(line, RuneCountBefore(line, startByte), RuneCountBefore(line, endByte))

\* re.ReplaceAllString(line, ""): line without the matches of pattern.
RECURSIVE ReplaceAllEmpty(_, _, _)
ReplaceAllEmpty(pattern, line, p) ==
  IF p >= Len(line) THEN << >>
  ELSE LET n == MatchAt(pattern, line, p) IN
       IF n = 0 THEN << line[p + 1] >> \o ReplaceAllEmpty(pattern, line, p + 1)
       ELSE ReplaceAllEmpty(pattern, line, p + n)

\* strings.Fields: the maximal runs of non-space runes, from position p.
RECURSIVE Fields(_, _)
Fields(line, p) ==
  IF p >= Len(line) THEN << >>
  ELSE IF line[p + 1] \in SpaceChars THEN Fields(line, p + 1)
  ELSE LET n == RunOf(line, p, {line[q] : q \in 1..Len(line)} \ SpaceChars)
       IN << Slice(line, p, p + n) >> \o Fields(line, p + n)

\* strings.Join(parts, sep)
RECURSIVE Join(_, _)
Join(parts, sep) ==
  IF parts = << >> THEN << >>
  ELSE IF Len(parts) = 1 THEN parts[1]
  ELSE parts[1] \o sep \o Join(Tail(parts), sep)

\* ------------------------------------------------------------- tokenizer
Token(value, start, end) == [Value |-> value, Start |-> start, End |-> end]

\* The token whose End is its Start plus the byte length of its value.
tokenFrom_byteWidth(value, start) ==
  Token(value, start, start + ByteOffset(value, Len(value)))

\* The token with the given value that starts at rune offset start.
tokenFrom(value, start) == Token(value, start, start + RuneCountInString(value))

\* The token Tokenize builds for the match [startByte, endByte) of line.
tokenAt(line, startByte, endByte) ==
  tokenFrom(ByteSlice(line, startByte, endByte), RuneCountBefore(line, startByte))

\* The token of a match with its byte offsets taken as rune offsets.
tokenAt_byteOffsets(line, startByte, endByte) ==
  Token(ByteSlice(line, startByte, endByte), startByte, endByte)

\* The body of Tokenize, given the matches of the pattern in line.
tokensOf(line, matches) ==
  IF Len(matches) = 0
    THEN << Token(line, 0, RuneCountInString(line)) >>
    ELSE Evaluated([m \in 1..Len(matches) |-> tokenAt(line, matches[m][1], matches[m][2])])

\* The body of Tokenize with byte offsets for rune offsets.
tokensOf_byteOffsets(line, matches) ==
  IF Len(matches) = 0
    THEN << Token(line, 0, RuneCountInString(line)) >>
    ELSE Evaluated([m \in 1..Len(matches) |->
                      tokenAt_byteOffsets(line, matches[m][1], matches[m][2])])

\* Tokenize recording the byte offsets of the matches instead of rune offsets.
Tokenize_byteOffsets(pattern, line) ==
  tokensOf_byteOffsets(line, FindAllStringIndex(pattern, line))

\* RegexTokenizer.Tokenize, for the tokenizer compiled from pattern.
Tokenize(pattern, line) == tokensOf(line, FindAllStringIndex(pattern, line))

\* --------------------------------------------------------------- engine
Equal == "Equal"

Added == "Added"

Removed == "Removed"

Highlight(start, end) == [Start |-> start, End |-> end]

DiffLine(type, content, lineNo1, lineNo2, highlights) ==
  [Type |-> type, Content |-> content, LineNo1 |-> lineNo1, LineNo2 |-> lineNo2,
   Highlights |-> highlights]

EngineOptions(language, ignoreWhitespace, ignorePatterns, tokenPatterns) ==
  [Language |-> language, IgnoreWhitespace |-> ignoreWhitespace,
   IgnorePatterns |-> ignorePatterns, TokenPatterns |-> tokenPatterns]

\* The outcome of a call that panicked instead of returning.
Panic == "panic"

\* File extensions and names, as rune sequences.
ExtGo == <<".", "g", "o">>

ExtTxt == <<".", "t", "x", "t">>

\* The keys of defaultMap in buildTokenizers.
DefaultExts ==
  {ExtGo, <<".", "j", "s">>, <<".", "t", "s">>, <<".", "j", "s", "x">>,
   <<".", "t", "s", "x">>, <<".", "p", "y">>, <<".", "r", "b">>, <<".", "r", "s">>,
   <<".", "j", "a", "v", "a">>, <<".", "c">>, <<".", "h">>, <<".", "c", "p", "p">>,
   <<".", "c", "s", "s">>, <<".", "h", "t", "m", "l">>, <<".", "m", "d">>}

\* filepath.Ext: the suffix from the last "." of the last path element, or "".
RECURSIVE ExtFrom(_, _)
ExtFrom(name, i) ==
  IF i < 0 \/ name[i + 1] = "/" THEN << >>
  ELSE IF name[i + 1] = "." THEN Slice(name, i, Len(name))
  ELSE ExtFrom(name, i - 1)

Ext(name) == ExtFrom(name, Len(name) - 1)

\* NewRegexTokenizer: regexp.MustCompile panics on a pattern that does not
\* compile; a tokenizer is represented by the pattern it was compiled from.
NewRegexTokenizer(pattern) == IF Compiles(pattern) THEN pattern ELSE Panic

\* The second loop of buildTokenizers returning from inside the loop, after the
\* first entry it visits.
registerPatterns_firstOnly(result, patterns, order) ==
  IF order = << >> THEN [panicked |-> FALSE, tokenizers |-> result]
  ELSE LET ext == Head(order)
           t == NewRegexTokenizer(patterns[ext])
       IN IF t = Panic THEN [panicked |-> TRUE, tokenizers |-> result]
          ELSE [panicked |-> FALSE, tokenizers |-> (ext :> t) @@ result]

\* The second loop of buildTokenizers: result[ext] = NewRegexTokenizer(pattern)
\* for the entries of patterns, visited in the map iteration order `order`.
\* panicked tells that MustCompile panicked before the loop ended.
RECURSIVE registerPatterns(_, _, _)
registerPatterns(result, patterns, order) ==
  IF order = << >> THEN [panicked |-> FALSE, tokenizers |-> result]
  ELSE LET ext == Head(order)
           t == NewRegexTokenizer(patterns[ext])
       IN IF t = Panic THEN [panicked |-> TRUE, tokenizers |-> result]
          ELSE registerPatterns((ext :> t) @@ result, patterns, Tail(order))

\* buildTokenizers: the built-in extension table, overridden by patterns.
buildTokenizers(patterns, order) ==
  registerPatterns([ext \in DefaultExts |-> NewRegexTokenizer(defaultTokenPattern)],
                   patterns, order)

\* compileIgnorePatterns giving up at the first pattern that does not compile.
RECURSIVE compileIgnorePatterns_abort(_)
compileIgnorePatterns_abort(patterns) ==
  IF patterns = << >> \/ ~Compiles(Head(patterns)) THEN << >>
  ELSE << Head(patterns) >> \o compileIgnorePatterns_abort(Tail(patterns))

\* compileIgnorePatterns: the patterns that compile, in their order.
RECURSIVE compileIgnorePatterns(_)
compileIgnorePatterns(patterns) ==
  IF patterns = << >> THEN << >>
  ELSE (IF Compiles(Head(patterns)) THEN << Head(patterns) >> ELSE << >>)
       \o compileIgnorePatterns(Tail(patterns))

\* The engine NewEngine returns once buildTokenizers gave `built`. The fields
\* after panicked are those of the Engine struct; when panicked, no engine is
\* returned and ignorePatterns was never assigned.
engineOf(options, built) ==
  [panicked |-> built.panicked,
   options |-> options,
   defaultTokenizer |-> NewRegexTokenizer(defaultTokenPattern),
   tokenizers |-> built.tokenizers,
   ignorePatterns |-> IF built.panicked THEN << >>
                      ELSE compileIgnorePatterns(options.IgnorePatterns)]

\* NewEngine; `order` is the order in which Go ranges over options.TokenPatterns.
NewEngine(options, order) ==
  engineOf(options, buildTokenizers(options.TokenPatterns, order))

\* selectTokenizer looking at the file extensions before the language hint.
selectTokenizer_extFirst(e, file1Name, file2Name) ==
  IF Ext(file1Name) \in DOMAIN e.tokenizers THEN e.tokenizers[Ext(file1Name)]
  ELSE IF Ext(file2Name) \in DOMAIN e.tokenizers THEN e.tokenizers[Ext(file2Name)]
  ELSE IF e.options.Language # << >> /\ e.options.Language \in DOMAIN e.tokenizers
    THEN e.tokenizers[e.options.Language]
  ELSE e.defaultTokenizer

\* Engine.selectTokenizer
selectTokenizer(e, file1Name, file2Name) ==
  IF e.options.Language # << >> /\ e.options.Language \in DOMAIN e.tokenizers
    THEN e.tokenizers[e.options.Language]
  ELSE IF Ext(file1Name) \in DOMAIN e.tokenizers THEN e.tokenizers[Ext(file1Name)]
  ELSE IF Ext(file2Name) \in DOMAIN e.tokenizers THEN e.tokenizers[Ext(file2Name)]
  ELSE e.defaultTokenizer

\* The loop of normalizeLine over the compiled ignore patterns.
RECURSIVE stripIgnored(_, _)
stripIgnored(line, patterns) ==
  IF patterns = << >> THEN line
  ELSE stripIgnored(ReplaceAllEmpty(Head(patterns), line, 0), Tail(patterns))

\* The whitespace step taken whether IgnoreWhitespace is set or not.
foldWhitespace_always(e, normalized) == Join(Fields(normalized, 0), << " " >>)

\* The whitespace step of normalizeLine.
foldWhitespace(e, normalized) ==
  IF e.options.IgnoreWhitespace
    THEN Join(Fields(normalized, 0), << " " >>)
    ELSE normalized

\* Engine.normalizeLine
normalizeLine(e, line) == foldWhitespace(e, stripIgnored(line, e.ignorePatterns))

\* Engine.normalizeLines
normalizeLines(e, lines) ==
  Evaluated([i \in 1..Len(lines) |-> normalizeLine(e, lines[i])])

\* tokenRangeToHighlight ending at the End of the first token of the range.
tokenRangeToHighlight_firstToken(tokens, start, end) ==
  IF Len(tokens) = 0 \/ start >= Len(tokens) \/ start = end
    THEN Highlight(0, 0)
    ELSE Highlight(tokens[start + 1].Start, tokens[start + 1].End)

\* tokenRangeToHighlight
tokenRangeToHighlight(tokens, start, end) ==
  IF Len(tokens) = 0 \/ start >= Len(tokens) \/ start = end
    THEN Highlight(0, 0)
    ELSE LET end2 == IF end > Len(tokens) THEN Len(tokens) ELSE end
         IN Highlight(tokens[start + 1].Start, tokens[end2].End)

\* The exchange sort of mergeHighlights: inner loop over j for a fixed i.
RECURSIVE sortInner(_, _, _)
sortInner(f, i, j) ==
  IF j > Len(f) THEN f
  ELSE IF f[j].Start < f[i].Start
    THEN sortInner([f EXCEPT ![i] = f[j], ![j] = f[i]], i, j + 1)
    ELSE sortInner(f, i, j + 1)

\* The exchange sort of mergeHighlights: outer loop over i.
RECURSIVE sortByStart(_, _)
sortByStart(f, i) ==
  IF i >= Len(f) THEN f ELSE sortByStart(sortInner(f, i, i + 1), i + 1)

\* The merge loop of mergeHighlights over the sorted spans.
RECURSIVE mergeSorted(_, _)
mergeSorted(merged, rest) ==
  IF rest = << >> THEN merged
  ELSE LET h == Head(rest)
           last == merged[Len(merged)]
       IN IF h.Start <= last.End
            THEN mergeSorted(
                   IF h.End > last.End
                     THEN [merged EXCEPT ![Len(merged)].End = h.End]
                     ELSE merged,
                   Tail(rest))
            ELSE mergeSorted(Append(merged, h), Tail(rest))

\* mergeHighlights from the sorted spans on.
mergeFrom(sorted) == mergeSorted(<< sorted[1] >>, Tail(sorted))

\* mergeHighlights without its sort: the filtered spans merged as they come.
mergeFiltered_unsorted(filtered) ==
  IF Len(filtered) = 0 THEN filtered ELSE mergeFrom(filtered)

\* mergeHighlights from the filtered spans on.
mergeFiltered(filtered) ==
  IF Len(filtered) = 0 THEN filtered ELSE mergeFrom(sortByStart(filtered, 1))

\* mergeHighlights
mergeHighlights(highlights) ==
  IF Len(highlights) = 0 THEN highlights
  ELSE mergeFiltered(SelectSeq(highlights, LAMBDA h : h.End > h.Start))

\* The highlights tokenHighlights collects for side A, before merging.
RECURSIVE leftSpans(_, _)
leftSpans(opcodes, leftTokens) ==
  IF opcodes = << >> THEN << >>
  ELSE LET op == Head(opcodes) IN
       (IF op.Tag \in {"r", "d"}
          THEN << tokenRangeToHighlight(leftTokens, op.I1, op.I2) >> ELSE << >>)
       \o leftSpans(Tail(opcodes), leftTokens)

\* The highlights tokenHighlights collects for side B, before merging.
RECURSIVE rightSpans(_, _)
rightSpans(opcodes, rightTokens) ==
  IF opcodes = << >> THEN << >>
  ELSE LET op == Head(opcodes) IN
       (IF op.Tag \in {"r", "i"}
          THEN << tokenRangeToHighlight(rightTokens, op.J1, op.J2) >> ELSE << >>)
       \o rightSpans(Tail(opcodes), rightTokens)

\* The Value of each token.
tokenValues(tokens) == Evaluated([i \in 1..Len(tokens) |-> tokens[i].Value])

\* tokenHighlights from the token opcodes on.
highlightsFor(leftTokens, rightTokens, opcodes) ==
  << mergeHighlights(leftSpans(opcodes, leftTokens)),
     mergeHighlights(rightSpans(opcodes, rightTokens)) >>

\* tokenHighlights from the two token lists on.
highlightsOf(leftTokens, rightTokens) ==
  highlightsFor(leftTokens, rightTokens,
                GetOpCodes(tokenValues(leftTokens), tokenValues(rightTokens)))

\* Engine.tokenHighlights: <<leftHighlights, rightHighlights>>.
tokenHighlights(left, right, tokenizer) ==
  highlightsOf(Tokenize(tokenizer, left), Tokenize(tokenizer, right))

\* An Equal record whose Content is the normalized key instead of the line.
equalLine_key(e, lines1, i, lineNo1, lineNo2) ==
  DiffLine(Equal, normalizeLine(e, lines1[i + 1]), lineNo1, lineNo2, << >>)

\* The record DiffLines appends for line i of an equal block.
equalLine(e, lines1, i, lineNo1, lineNo2) ==
  DiffLine(Equal, lines1[i + 1], lineNo1, lineNo2, << >>)

\* A Removed record that carries the counter of side A in LineNo2 as well.
removedLine_bothNumbers(lines1, i, lineNo1, highlights) ==
  DiffLine(Removed, lines1[i + 1], lineNo1, lineNo1, highlights)

\* The Removed record DiffLines appends for lines1[i].
removedLine(lines1, i, lineNo1, highlights) ==
  DiffLine(Removed, lines1[i + 1], lineNo1, 0, highlights)

\* An Added record that carries the index j of its line instead of the counter.
addedLine_lineIndex(lines2, j, lineNo2, highlights) ==
  DiffLine(Added, lines2[j + 1], 0, j, highlights)

\* The Added record DiffLines appends for lines2[j].
addedLine(lines2, j, lineNo2, highlights) ==
  DiffLine(Added, lines2[j + 1], 0, lineNo2, highlights)

\* The whole-line highlight with the byte length of the line as its End.
fullLine_byteLength(line) == << Highlight(0, ByteOffset(line, Len(line))) >>

\* The highlight that spans the whole line.
fullLine(line) == << Highlight(0, RuneCountInString(line)) >>

\* <<leftHighlights, rightHighlights>> of iteration k of the replace loop over
\* lines1[i1:i2], lines2[j1:j2].
replaceHighlights(lines1, lines2, tokenizer, op, k) ==
  IF k < op.I2 - op.I1 /\ k < op.J2 - op.J1
    THEN tokenHighlights(lines1[op.I1 + k + 1], lines2[op.J1 + k + 1], tokenizer)
  ELSE IF k < op.I2 - op.I1 THEN << fullLine(lines1[op.I1 + k + 1]), << >> >>
  ELSE IF k < op.J2 - op.J1 THEN << << >>, fullLine(lines2[op.J1 + k + 1]) >>
  ELSE << << >>, << >> >>

\* The records of iteration k with the Added record before the Removed one.
replaceRecords_addedFirst(lines1, lines2, op, k, lineNo1, lineNo2, hl) ==
  (IF k < op.J2 - op.J1
     THEN << addedLine(lines2, op.J1 + k, lineNo2 + k, hl[2]) >> ELSE << >>)
  \o (IF k < op.I2 - op.I1
        THEN << removedLine(lines1, op.I1 + k, lineNo1 + k, hl[1]) >> ELSE << >>)

\* The records iteration k of the replace loop appends, given its highlights.
replaceRecords(lines1, lines2, op, k, lineNo1, lineNo2, hl) ==
  (IF k < op.I2 - op.I1
     THEN << removedLine(lines1, op.I1 + k, lineNo1 + k, hl[1]) >> ELSE << >>)
  \o (IF k < op.J2 - op.J1
        THEN << addedLine(lines2, op.J1 + k, lineNo2 + k, hl[2]) >> ELSE << >>)

\* The replace loop from iteration k on; lineNo1, lineNo2 are the counters when
\* the loop is entered.
RECURSIVE replaceLoop(_, _, _, _, _, _, _, _)
replaceLoop(lines1, lines2, tokenizer, op, k, maxLen, lineNo1, lineNo2) ==
  IF k >= maxLen THEN << >>
  ELSE replaceRecords(lines1, lines2, op, k, lineNo1, lineNo2,
                      replaceHighlights(lines1, lines2, tokenizer, op, k))
       \o replaceLoop(lines1, lines2, tokenizer, op, k + 1, maxLen, lineNo1, lineNo2)

\* The records DiffLines appends for one opcode, with the counters at lineNo1,
\* lineNo2 when the opcode is reached.
opcodeLines(e, lines1, lines2, tokenizer, op, lineNo1, lineNo2) ==
  CASE op.Tag = "e" ->
         Evaluated([n \in 1..(op.I2 - op.I1) |->
            equalLine(e, lines1, op.I1 + n - 1, lineNo1 + n - 1, lineNo2 + n - 1)])
    [] op.Tag = "d" ->
         Evaluated([n \in 1..(op.I2 - op.I1) |->
            removedLine(lines1, op.I1 + n - 1, lineNo1 + n - 1, fullLine(lines1[op.I1 + n]))])
    [] op.Tag = "i" ->
         Evaluated([n \in 1..(op.J2 - op.J1) |->
            addedLine(lines2, op.J1 + n - 1, lineNo2 + n - 1, fullLine(lines2[op.J1 + n]))])
    [] op.Tag = "r" ->
         replaceLoop(lines1, lines2, tokenizer, op, 0,
                     max(op.I2 - op.I1, op.J2 - op.J1), lineNo1, lineNo2)
    [] OTHER -> << >>

\* The number of records of `out` with one of the given types.
countOf(out, types) == Cardinality({n \in 1..Len(out) : out[n].Type \in types})

\* The opcode loop with lineNo2++ missing after an Added record.
RECURSIVE assemble_noAdvance(_, _, _, _, _, _, _)
RECURSIVE continue_noAdvance(_, _, _, _, _, _, _, _)
continue_noAdvance(e, lines1, lines2, tokenizer, opcodes, lineNo1, lineNo2, out) ==
  out \o assemble_noAdvance(e, lines1, lines2, tokenizer, Tail(opcodes),
                            lineNo1 + countOf(out, {Equal, Removed}),
                            lineNo2 + countOf(out, {Equal}))

assemble_noAdvance(e, lines1, lines2, tokenizer, opcodes, lineNo1, lineNo2) ==
  IF opcodes = << >> THEN << >>
  ELSE continue_noAdvance(e, lines1, lines2, tokenizer, opcodes, lineNo1, lineNo2,
         opcodeLines(e, lines1, lines2, tokenizer, Head(opcodes), lineNo1, lineNo2))

\* The loop of DiffLines over the opcodes: the records `out` of the first opcode,
\* then the rest with lineNo1 advanced once per Equal or Removed record and
\* lineNo2 once per Equal or Added record.
RECURSIVE assemble(_, _, _, _, _, _, _)
RECURSIVE appendAndContinue(_, _, _, _, _, _, _, _)
appendAndContinue(e, lines1, lines2, tokenizer, opcodes, lineNo1, lineNo2, out) ==
  out \o assemble(e, lines1, lines2, tokenizer, Tail(opcodes),
                  lineNo1 + countOf(out, {Equal, Removed}),
                  lineNo2 + countOf(out, {Equal, Added}))

assemble(e, lines1, lines2, tokenizer, opcodes, lineNo1, lineNo2) ==
  IF opcodes = << >> THEN << >>
  ELSE appendAndContinue(e, lines1, lines2, tokenizer, opcodes, lineNo1, lineNo2,
         opcodeLines(e, lines1, lines2, tokenizer, Head(opcodes), lineNo1, lineNo2))

\* lineNo1, lineNo2 := 1, 1
initialLineNo == 1

\* The matcher given the raw second list instead of the normalized one.
matchLines_raw2(e, lines1, lines2) ==
  GetOpCodes(normalizeLines(e, lines1), lines2)

\* The opcodes DiffLines walks: those of the matcher over the normalized lists.
matchLines(e, lines1, lines2) ==
  LET normalized1 == normalizeLines(e, lines1)
      normalized2 == normalizeLines(e, lines2)
  IN GetOpCodes(normalized1, normalized2)

\* Engine.DiffLines, when the sequence matcher returns.
DiffLines(e, lines1, lines2, file1Name, file2Name) ==
  LET opcodes == matchLines(e, lines1, lines2)
      tokenizer == selectTokenizer(e, file1Name, file2Name)
  IN [Lines |-> assemble(e, lines1, lines2, tokenizer, opcodes,
                         initialLineNo, initialLineNo),
      File1Name |-> file1Name, File2Name |-> file2Name,
      File1Lines |-> lines1, File2Lines |-> lines2]

\* GetStats with the Removed records counted as added.
GetStats_removedAsAdded(r) ==
  << Cardinality({n \in 1..Len(r.Lines) : r.Lines[n].Type \in {Added, Removed}}),
     0,
     Cardinality({n \in 1..Len(r.Lines) : r.Lines[n].Type = Equal}) >>

\* DiffResult.GetStats: <<added, removed, unchanged>>.
GetStats(r) ==
  << Cardinality({n \in 1..Len(r.Lines) : r.Lines[n].Type = Added}),
     Cardinality({n \in 1..Len(r.Lines) : r.Lines[n].Type = Removed}),
     Cardinality({n \in 1..Len(r.Lines) : r.Lines[n].Type = Equal}) >>

\* HasChanges looking for Added records only.
HasChanges_addedOnly(r) == \E n \in 1..Len(r.Lines) : r.Lines[n].Type = Added

\* DiffResult.HasChanges
HasChanges(r) == \E n \in 1..Len(r.Lines) : r.Lines[n].Type # Equal

\* The *DiffResult nil: what DiffFiles returns beside an error, and diffResult
\* in main before it is assigned.
NoResult == [Lines |-> << >>, File1Name |-> << >>, File2Name |-> << >>,
             File1Lines |-> << >>, File2Lines |-> << >>]

\* What a file is to os.Stat, os.Open and the scanner: FileOk can be read to its
\* end, FileMissing does not exist, FileNoOpen exists and cannot be opened,
\* FileReadErr opens and the scanner ends with an error.
FileOk == "ok"

FileMissing == "missing"

FileNoOpen == "noopen"

FileReadErr == "readerr"

\* A file of the file system: its status and the lines the scanner yields.
File(status, lines) == [status |-> status, lines |-> lines]

\* readFileLines: <<lines, err>>; err is "" for nil.
readFileLines(fs, filename) ==
  IF fs[filename].status \in {FileMissing, FileNoOpen} THEN [lines |-> << >>, err |-> "open"]
  ELSE IF fs[filename].status = FileReadErr THEN [lines |-> << >>, err |-> "scan"]
  ELSE [lines |-> fs[filename].lines, err |-> ""]

\* What a call of DiffFiles comes to: the result (NoResult for nil), the error
\* ("" for nil) and the files readFileLines was called on, in call order.
DiffFilesReturn(r, err, opened) == [result |-> r, err |-> err, opened |-> opened]

\* DiffFiles reading file2 although reading file1 failed.
DiffFiles_readBoth(e, file1, file2, fs) ==
  IF readFileLines(fs, file1).err # "" \/ readFileLines(fs, file2).err # ""
    THEN DiffFilesReturn(NoResult, "read", << file1, file2 >>)
  ELSE DiffFilesReturn(DiffLines(e, readFileLines(fs, file1).lines,
                                 readFileLines(fs, file2).lines, file1, file2),
                       "", << file1, file2 >>)

\* Engine.DiffFiles
DiffFiles(e, file1, file2, fs) ==
  IF readFileLines(fs, file1).err # ""
    THEN DiffFilesReturn(NoResult, readFileLines(fs, file1).err, << file1 >>)
  ELSE IF readFileLines(fs, file2).err # ""
    THEN DiffFilesReturn(NoResult, readFileLines(fs, file2).err, << file1, file2 >>)
  ELSE DiffFilesReturn(DiffLines(e, readFileLines(fs, file1).lines,
                                 readFileLines(fs, file2).lines, file1, file2),
                       "", << file1, file2 >>)

\* ------------------------------------------------------------ input sets
\* The lines the line lists are built from: an empty line, a line with a
\* multi-byte rune, and a variant of it that differs in whitespace and in a digit.
LineEmpty == << >>

LineBase == <<"é", " ", "x", "=", "1">>

LineVariant == <<"é", " ", " ", "x", "=", "2">>

LinePool == {LineEmpty, LineBase, LineVariant}

LineLists == SeqsUpTo(LinePool, MaxLines)

NameGo == <<"a", ".", "g", "o">>

NameTxt == <<"b", ".", "t", "x", "t">>

NamePlain == <<"c">>

\* <<file1Name, file2Name>> pairs.
NamePairs == {<<NameGo, NameTxt>>, <<NamePlain, NameTxt>>}

TokenPatternMaps ==
  {<< >>,
   (ExtTxt :> LettersPattern) @@ (ExtGo :> DigitsPattern),
   (ExtTxt :> BadPattern) @@ (ExtGo :> LettersPattern),
   (ExtGo :> DigitsOptPattern)}

IgnorePatternLists == {<< >>, <<BadPattern, DigitsPattern, AssignTwoPattern>>}

OptionValues ==
  {EngineOptions(l, w, ip, tp) :
     l \in {<< >>, ExtTxt}, w \in BOOLEAN, ip \in IgnorePatternLists, tp \in TokenPatternMaps}

\* The orders in which a range over the map m can visit its keys.
MapOrders(m) ==
  {o \in [1..Cardinality(DOMAIN m) -> DOMAIN m] :
     \A i, j \in 1..Cardinality(DOMAIN m) : i # j => o[i] # o[j]}

\* ---------------------------------------------------------- state machine
\* pc: "start" before NewEngine, "ready" with an engine, "done" after DiffLines
\* returned, "panic" when a panic reached the caller of NewEngine or DiffLines.
VARIABLES pc, engine, lines1, lines2, file1Name, file2Name, result, panicIn

\* The program (func main): mpc is "init" before the command line is parsed,
\* "parsed" after flag.Parse, "diffed" with diffResult computed, "tui" while the
\* TUI runs, "exit" after the process ended. flags, nargs: the parsed command
\* line; fs, inRepo: the files and whether they are in a git repository; err:
\* the error of the comparison ("" for nil); opened: the files DiffFiles read,
\* in order; output: what was printed; exitCode: the exit status, -1 while
\* running; tuiStarted: the TUI program was started. engine and result are
\* main's engine and diffResult.
VARIABLES mpc, flags, nargs, fs, inRepo, err, opened, output, exitCode, tuiStarted

\* Two goroutines that call DiffLines on the same engine: heap holds the line
\* slices the callers pass, by name; atStart the engine and the heap when the
\* goroutines were started; calls[g] the arguments of goroutine g, gpc[g] the
\* statement it is at, locals[g] its local variables, rets[g] what it returned.
VARIABLES heap, atStart, calls, gpc, locals, rets

\* The TUI: tuiModel is the model bubbletea holds (<< >> before the program is
\* started), lastMsg the last message delivered to Update, lastGit what git
\* answered while Update handled it, tuiCmd the command Update returned.
VARIABLES tuiModel, lastMsg, lastGit, tuiCmd

\* A single call of one of the functions of the engine: callee is its name (""
\* before the call), args its arguments, ret what it returned, with the values
\* of its local variables.
VARIABLES callee, args, ret

engineVars == << pc, engine, lines1, lines2, file1Name, file2Name, result, panicIn >>

mainVars == << mpc, flags, nargs, fs, inRepo, err, opened, output, exitCode, tuiStarted >>

concVars == << heap, atStart, calls, gpc, locals, rets >>

tuiVars == << tuiModel, lastMsg, lastGit, tuiCmd >>

callVars == << callee, args, ret >>

vars == << engineVars, mainVars, concVars, tuiVars, callVars >>

\* No goroutine has been started.
ConcIdle ==
  /\ heap = << >>
  /\ atStart = << >>
  /\ calls = << >>
  /\ gpc = << >>
  /\ locals = << >>
  /\ rets = << >>

\* No function has been called.
CallIdle ==
  /\ callee = ""
  /\ args = << >>
  /\ ret = << >>

\* The TUI has not been started.
TuiIdle ==
  /\ tuiModel = << >>
  /\ lastMsg = ""
  /\ lastGit = << >>
  /\ tuiCmd = ""

\* The program has not been started.
MainIdle ==
  /\ mpc = "init"
  /\ flags = << >>
  /\ nargs = 0
  /\ fs = << >>
  /\ inRepo = FALSE
  /\ err = ""
  /\ opened = << >>
  /\ output = << >>
  /\ exitCode = -1
  /\ tuiStarted = FALSE

Init ==
  /\ pc = "start"
  /\ engine = NewEngine(EngineOptions(<< >>, FALSE, << >>, << >>), << >>)
  /\ lines1 = << >>
  /\ lines2 = << >>
  /\ file1Name = << >>
  /\ file2Name = << >>
  /\ result = NoResult
  /\ panicIn = ""
  /\ MainIdle
  /\ ConcIdle
  /\ TuiIdle
  /\ CallIdle

\* engine := NewEngine(options); nothing in NewEngine recovers a panic.
DoNewEngine(options, order) ==
  /\ pc = "start"
  /\ engine' = NewEngine(options, order)
  /\ pc' = IF engine'.panicked THEN "panic" ELSE "ready"
  /\ panicIn' = IF engine'.panicked THEN "NewEngine" ELSE ""
  /\ UNCHANGED << lines1, lines2, file1Name, file2Name, result >>
  /\ UNCHANGED << mainVars, concVars, tuiVars, callVars >>

\* result := engine.DiffLines(l1, l2, f1, f2). matcherPanics tells whether the
\* sequence matcher panics on these inputs; DiffLines has no recover, so the
\* panic reaches the caller and no result is returned.
DoDiffLines(l1, l2, f1, f2, matcherPanics) ==
  /\ pc = "ready"
  /\ IF matcherPanics
       THEN /\ pc' = "panic"
            /\ panicIn' = "DiffLines"
            /\ UNCHANGED << lines1, lines2, file1Name, file2Name, result >>
       ELSE /\ pc' = "done"
            /\ panicIn' = ""
            /\ lines1' = l1
            /\ lines2' = l2
            /\ file1Name' = f1
            /\ file2Name' = f2
            /\ result' = DiffLines(engine, l1, l2, f1, f2)
  /\ UNCHANGED engine
  /\ UNCHANGED << mainVars, concVars, tuiVars, callVars >>

\* The caller constructs an engine with some options.
CallNewEngine ==
  /\ pc = "start"
  /\ \E options \in OptionValues : \E order \in MapOrders(options.TokenPatterns) :
       DoNewEngine(options, order)

\* The caller compares two line lists with the engine.
CallDiffLines ==
  /\ pc = "ready"
  /\ \E l1 \in LineLists, l2 \in LineLists, names \in NamePairs, matcherPanics \in BOOLEAN :
       DoDiffLines(l1, l2, names[1], names[2], matcherPanics)

Next == CallNewEngine \/ CallDiffLines

Spec == Init /\ [][Next]_vars

\* ---------------------------------------------------------- the program
\* The parsed flags; gitDiffMode stands for ref1 != "" || ref2 != "".
Flags(help, showVersion, ignoreWhitespace, gitDiffMode, exportFormat, exportFile, exportCopy) ==
  [help |-> help, showVersion |-> showVersion, ignoreWhitespace |-> ignoreWhitespace,
   gitDiffMode |-> gitDiffMode, exportFormat |-> exportFormat,
   exportFile |-> exportFile, exportCopy |-> exportCopy]

\* args[0], args[1]
File1 == NameGo

File2 == NameTxt

\* parseExportFormat, for lower-case values: the format, "" with an error.
parseExportFormat(raw) ==
  IF raw \in {"", "markdown", "md"} THEN "markdown"
  ELSE IF raw \in {"html", "htm"} THEN "html"
  ELSE IF raw \in {"ansi", "text"} THEN "ansi"
  ELSE ""

\* The options of main's engine: diff.NewEngine() is called without any option.
MainEngineOptions == EngineOptions(<< >>, FALSE, << >>, << >>)

\* loadGitDiff: both sides are read from git (here fs[File1] for the left ref,
\* fs[File2] for the right one) and compared with DiffLines; any failure to find
\* the repository or to read a side is returned as an error.
loadGitDiff(e, files, repo) ==
  IF ~repo \/ readFileLines(files, File1).err # "" \/ readFileLines(files, File2).err # ""
    THEN DiffFilesReturn(NoResult, "git", << >>)
    ELSE DiffFilesReturn(DiffLines(e, readFileLines(files, File1).lines,
                                   readFileLines(files, File2).lines, File1, File2),
                         "", << >>)

\* How far main got: what it printed, its exit status (-1: still running) and
\* whether it goes on to start the TUI.
MainStep(out, code, tui) == [output |-> out, exitCode |-> code, startTui |-> tui]

\* main from the engine to the diff (lines 254-300), for a command line without
\* -h and -v: the comparison made (none before an early exit) and the exit.
compare(e, f, n, files, repo) ==
  IF f.gitDiffMode
    THEN IF n < 1 THEN [diff |-> DiffFilesReturn(NoResult, "", << >>),
                        step |-> MainStep(<< "usage" >>, 1, FALSE)]
         ELSE [diff |-> loadGitDiff(e, files, repo),
               step |-> IF loadGitDiff(e, files, repo).err # ""
                          THEN MainStep(<< "error" >>, 1, FALSE)
                          ELSE MainStep(<< >>, -1, FALSE)]
  ELSE IF n < 2 THEN [diff |-> DiffFilesReturn(NoResult, "", << >>),
                      step |-> MainStep(<< "usage" >>, 1, FALSE)]
  ELSE IF files[File1].status = FileMissing \/ files[File2].status = FileMissing
    THEN [diff |-> DiffFilesReturn(NoResult, "", << >>),
          step |-> MainStep(<< "error" >>, 1, FALSE)]
  ELSE [diff |-> DiffFiles(e, File1, File2, files),
        step |-> IF DiffFiles(e, File1, File2, files).err # ""
                   THEN MainStep(<< "error" >>, 1, FALSE)
                   ELSE MainStep(<< >>, -1, FALSE)]

\* The export branch of main (lines 308-347); writeFails, copyFails tell whether
\* os.WriteFile and CopyToClipboard fail.
exportDiff(f, writeFails, copyFails) ==
  IF parseExportFormat(f.exportFormat) = "" THEN MainStep(<< "error" >>, 1, FALSE)
  ELSE IF f.exportFile /\ writeFails THEN MainStep(<< "error" >>, 1, FALSE)
  ELSE IF f.exportCopy /\ copyFails
    THEN MainStep((IF f.exportFile THEN << "saved" >> ELSE << >>) \o << "error" >>, 1, FALSE)
  ELSE MainStep((IF f.exportFile THEN << "saved" >> ELSE << >>)
                \o (IF f.exportCopy THEN << "copied" >> ELSE << >>)
                \o (IF ~f.exportFile /\ ~f.exportCopy THEN << "rendered" >> ELSE << >>),
                0, FALSE)

\* An export was asked for: exportFormat != "" || exportFile != "" || exportCopy.
exportRequested(f) == f.exportFormat # "" \/ f.exportFile \/ f.exportCopy

\* report without the check of HasChanges: the TUI starts on any result.
report_noIdenticalCheck(f, r, writeFails, copyFails) ==
  IF exportRequested(f) THEN exportDiff(f, writeFails, copyFails)
  ELSE MainStep(<< >>, -1, TRUE)

\* main after the diff (lines 302-357): export, or the report of identical
\* files, or the start of the TUI.
report(f, r, writeFails, copyFails) ==
  IF exportRequested(f) THEN exportDiff(f, writeFails, copyFails)
  ELSE IF ~HasChanges(r) THEN MainStep(<< "identical" >>, 0, FALSE)
  ELSE MainStep(<< >>, -1, TRUE)

\* flag.Parse: the command line and the environment of this run.
MainParse(f, n, files, repo) ==
  /\ mpc = "init"
  /\ mpc' = "parsed"
  /\ flags' = f
  /\ nargs' = n
  /\ fs' = files
  /\ inRepo' = repo
  /\ UNCHANGED << err, opened, output, exitCode, tuiStarted >>
  /\ UNCHANGED << engineVars, concVars, tuiVars, callVars >>

\* main from flag.Parse to the diff (lines 242-300).
MainCompare ==
  /\ mpc = "parsed"
  /\ IF flags.help
       THEN /\ output' = << "usage" >>
            /\ exitCode' = 0
            /\ mpc' = "exit"
            /\ UNCHANGED << engine, result, err, opened >>
     ELSE IF flags.showVersion
       THEN /\ output' = << "version" >>
            /\ exitCode' = 0
            /\ mpc' = "exit"
            /\ UNCHANGED << engine, result, err, opened >>
     ELSE /\ engine' = NewEngine(MainEngineOptions, << >>)
          /\ result' = compare(engine', flags, nargs, fs, inRepo).diff.result
          /\ err' = compare(engine', flags, nargs, fs, inRepo).diff.err
          /\ opened' = compare(engine', flags, nargs, fs, inRepo).diff.opened
          /\ output' = compare(engine', flags, nargs, fs, inRepo).step.output
          /\ exitCode' = compare(engine', flags, nargs, fs, inRepo).step.exitCode
          /\ mpc' = IF exitCode' = -1 THEN "diffed" ELSE "exit"
  /\ UNCHANGED << flags, nargs, fs, inRepo, tuiStarted >>
  /\ UNCHANGED << pc, lines1, lines2, file1Name, file2Name, panicIn >>
  /\ UNCHANGED << concVars, tuiVars, callVars >>

\* main after the diff (lines 302-357).
MainReport(writeFails, copyFails) ==
  /\ mpc = "diffed"
  /\ output' = report(flags, result, writeFails, copyFails).output
  /\ exitCode' = report(flags, result, writeFails, copyFails).exitCode
  /\ tuiStarted' = report(flags, result, writeFails, copyFails).startTui
  /\ mpc' = IF tuiStarted' THEN "tui" ELSE "exit"
  /\ UNCHANGED << flags, nargs, fs, inRepo, err, opened >>
  /\ UNCHANGED << engineVars, concVars, tuiVars, callVars >>

\* p.Run() returns (lines 359-363), with an error or without.
MainTuiReturns(runFails) ==
  /\ mpc = "tui"
  /\ mpc' = "exit"
  /\ output' = IF runFails THEN << "error" >> ELSE << >>
  /\ exitCode' = IF runFails THEN 1 ELSE 0
  /\ UNCHANGED << flags, nargs, fs, inRepo, err, opened, tuiStarted >>
  /\ UNCHANGED << engineVars, concVars, tuiVars, callVars >>

\* A line that differs from LineBase in whitespace only.
LineSpaced == <<"é", " ", " ", "x", "=", "1">>

FileContents == {<< LineBase >>, << LineSpaced >>, << LineBase, LineVariant >>}

FileValues ==
  {File(FileOk, c) : c \in FileContents}
    \cup {File(FileMissing, << >>), File(FileNoOpen, << >>), File(FileReadErr, << >>)}

FileSystems == [{File1, File2} -> FileValues]

\* The command lines: -h or -v alone, or any of the other flags.
FlagValues ==
  {Flags(TRUE, FALSE, FALSE, FALSE, "", FALSE, FALSE),
   Flags(FALSE, TRUE, FALSE, FALSE, "", FALSE, FALSE)}
    \cup {Flags(FALSE, FALSE, w, g, ef, xf, xc) :
            w \in BOOLEAN, g \in BOOLEAN, ef \in {"", "html", "pdf"},
            xf \in BOOLEAN, xc \in BOOLEAN}

StartMain ==
  /\ mpc = "init"
  /\ \E f \in FlagValues, n \in 0..2, files \in FileSystems, repo \in BOOLEAN :
       MainParse(f, n, files, repo)

FinishReport ==
  /\ mpc = "diffed"
  /\ \E writeFails \in BOOLEAN, copyFails \in BOOLEAN : MainReport(writeFails, copyFails)

QuitTui ==
  /\ mpc = "tui"
  /\ \E runFails \in BOOLEAN : MainTuiReturns(runFails)

MainNext == StartMain \/ MainCompare \/ FinishReport \/ QuitTui

MainSpec == Init /\ [][MainNext]_vars

\* ------------------------------------------- concurrent calls of DiffLines
Goroutines == {1, 2}

\* The names of the line slices on the heap.
SliceA == "A"

SliceB == "B"

\* The arguments of one call of DiffLines: the slices by name, and the labels.
Call(l1, l2, f1, f2) == [lines1 |-> l1, lines2 |-> l2, file1Name |-> f1, file2Name |-> f2]

\* The local variables of DiffLines.
Locals(normalized1, normalized2, opcodes, tokenizer, diffLines, lineNo1, lineNo2) ==
  [normalized1 |-> normalized1, normalized2 |-> normalized2, opcodes |-> opcodes,
   tokenizer |-> tokenizer, diffLines |-> diffLines, lineNo1 |-> lineNo1, lineNo2 |-> lineNo2]

NoLocals == Locals(<< >>, << >>, << >>, "", << >>, initialLineNo, initialLineNo)

\* normalizeLines writing the normalized lines into the slice it was given.
heapAfterNormalizeLines_inPlace(h, id, normalized) == [h EXCEPT ![id] = normalized]

\* The heap after normalizeLines(h[id]): the normalized lines go to a slice made
\* by the call (normalized := make([]string, len(lines))), the slice it was
\* given is only read.
heapAfterNormalizeLines(h, id, normalized) == h

\* The engine is built and both goroutines are started on it.
ConcStart(options, h, c1, c2) ==
  /\ gpc = << >>
  /\ engine' = NewEngine(options, << >>)
  /\ heap' = h
  /\ atStart' = [engine |-> engine', heap |-> h]
  /\ calls' = << c1, c2 >>
  /\ gpc' = [g \in Goroutines |-> "normalize1"]
  /\ locals' = [g \in Goroutines |-> NoLocals]
  /\ rets' = [g \in Goroutines |-> NoResult]
  /\ UNCHANGED << pc, lines1, lines2, file1Name, file2Name, result, panicIn >>
  /\ UNCHANGED << mainVars, tuiVars, callVars >>

\* normalized1 := e.normalizeLines(lines1)
ConcNormalize1(g) ==
  /\ gpc # << >>
  /\ gpc[g] = "normalize1"
  /\ locals' = [locals EXCEPT ![g].normalized1 = normalizeLines(engine, heap[calls[g].lines1])]
  /\ heap' = heapAfterNormalizeLines(heap, calls[g].lines1, locals'[g].normalized1)
  /\ gpc' = [gpc EXCEPT ![g] = "normalize2"]
  /\ UNCHANGED << atStart, calls, rets >>
  /\ UNCHANGED << engineVars, mainVars, tuiVars, callVars >>

\* normalized2 := e.normalizeLines(lines2)
ConcNormalize2(g) ==
  /\ gpc # << >>
  /\ gpc[g] = "normalize2"
  /\ locals' = [locals EXCEPT ![g].normalized2 = normalizeLines(engine, heap[calls[g].lines2])]
  /\ heap' = heapAfterNormalizeLines(heap, calls[g].lines2, locals'[g].normalized2)
  /\ gpc' = [gpc EXCEPT ![g] = "match"]
  /\ UNCHANGED << atStart, calls, rets >>
  /\ UNCHANGED << engineVars, mainVars, tuiVars, callVars >>

\* opcodes := matcher.GetOpCodes(); lineNo1, lineNo2 := 1, 1
ConcMatch(g) ==
  /\ gpc # << >>
  /\ gpc[g] = "match"
  /\ locals' = [locals EXCEPT ![g].opcodes =
                   GetOpCodes(locals[g].normalized1, locals[g].normalized2)]
  /\ gpc' = [gpc EXCEPT ![g] = "select"]
  /\ UNCHANGED << heap, atStart, calls, rets >>
  /\ UNCHANGED << engineVars, mainVars, tuiVars, callVars >>

\* tokenizer := e.selectTokenizer(file1Name, file2Name)
ConcSelect(g) ==
  /\ gpc # << >>
  /\ gpc[g] = "select"
  /\ locals' = [locals EXCEPT ![g].tokenizer =
                   selectTokenizer(engine, calls[g].file1Name, calls[g].file2Name)]
  /\ gpc' = [gpc EXCEPT ![g] = "loop"]
  /\ UNCHANGED << heap, atStart, calls, rets >>
  /\ UNCHANGED << engineVars, mainVars, tuiVars, callVars >>

\* The locals after the records `out` of the first remaining opcode are appended.
localsAfter(l, out) ==
  [l EXCEPT !.diffLines = l.diffLines \o out,
            !.opcodes = Tail(l.opcodes),
            !.lineNo1 = l.lineNo1 + countOf(out, {Equal, Removed}),
            !.lineNo2 = l.lineNo2 + countOf(out, {Equal, Added})]

\* One iteration of the loop over the opcodes. The slices tokenHighlights and
\* mergeHighlights write to are made within the iteration.
ConcLoop(g) ==
  /\ gpc # << >>
  /\ gpc[g] = "loop"
  /\ locals[g].opcodes # << >>
  /\ locals' = [locals EXCEPT ![g] =
       localsAfter(locals[g],
                   opcodeLines(engine, heap[calls[g].lines1], heap[calls[g].lines2],
                               locals[g].tokenizer, Head(locals[g].opcodes),
                               locals[g].lineNo1, locals[g].lineNo2))]
  /\ UNCHANGED << heap, atStart, calls, gpc, rets >>
  /\ UNCHANGED << engineVars, mainVars, tuiVars, callVars >>

\* result.Lines = diffLines; return result
ConcReturn(g) ==
  /\ gpc # << >>
  /\ gpc[g] = "loop"
  /\ locals[g].opcodes = << >>
  /\ rets' = [rets EXCEPT ![g] =
       [Lines |-> locals[g].diffLines,
        File1Name |-> calls[g].file1Name, File2Name |-> calls[g].file2Name,
        File1Lines |-> heap[calls[g].lines1], File2Lines |-> heap[calls[g].lines2]]]
  /\ gpc' = [gpc EXCEPT ![g] = "returned"]
  /\ UNCHANGED << heap, atStart, calls, locals >>
  /\ UNCHANGED << engineVars, mainVars, tuiVars, callVars >>

\* The slices the two callers hold.
ConcLineLists == {<< LineBase >>, << LineVariant, LineBase >>, << LineBase, LineEmpty >>}

Heaps == [{SliceA, SliceB} -> ConcLineLists]

ConcOptions == {MainEngineOptions, EngineOptions(<< >>, TRUE, << DigitsPattern >>, << >>)}

\* The two calls share both slices, in the same or in opposite roles.
ConcCalls ==
  {<< Call(SliceA, SliceB, NameGo, NameTxt), Call(SliceA, SliceB, NameGo, NameTxt) >>,
   << Call(SliceA, SliceB, NameGo, NameTxt), Call(SliceB, SliceA, NameTxt, NamePlain) >>}

StartGoroutines ==
  /\ gpc = << >>
  /\ \E options \in ConcOptions, h \in Heaps, c \in ConcCalls :
       ConcStart(options, h, c[1], c[2])

ConcNext ==
  \/ StartGoroutines
  \/ \E g \in Goroutines :
       \/ ConcNormalize1(g)
       \/ ConcNormalize2(g)
       \/ ConcMatch(g)
       \/ ConcSelect(g)
       \/ ConcLoop(g)
       \/ ConcReturn(g)

ConcSpec == Init /\ [][ConcNext]_vars

\* ------------------------------------------------------------------ TUI
\* config.DefaultKeybindings: the keys of each action.
DefaultKeybindings ==
  [quit |-> {"ctrl+c", "q"}, toggle_help |-> {"?", "h"}, toggle_stats |-> {"s"},
   toggle_status |-> {"S"}, toggle_branches |-> {"B"}, toggle_history |-> {"H"},
   toggle_palette |-> {"p"}, toggle_settings |-> {","}, toggle_side_by_side |-> {"v"},
   toggle_syntax |-> {"c"}, toggle_wrap |-> {"w"}, toggle_blame |-> {"b"},
   toggle_line_numbers |-> {"ctrl+n"}, minimap_narrow |-> {"<"}, minimap_widen |-> {">"},
   next_change |-> {"n"}, prev_change |-> {"N"}, scroll_down |-> {"j", "down"},
   scroll_up |-> {"k", "up"}, page_down |-> {"d"}, page_up |-> {"u"}, go_top |-> {"g"},
   go_bottom |-> {"G"}, go_line |-> {"L"}, prev_branch |-> {"["}, next_branch |-> {"]"}]

\* config.MergeKeybindings: the defaults, with the non-empty overrides on top.
MergeKeybindings(overrides) ==
  [action \in DOMAIN DefaultKeybindings |->
     IF action \in DOMAIN overrides /\ overrides[action] # {}
       THEN overrides[action] ELSE DefaultKeybindings[action]]

\* The fields of config.Config that the model reads or writes.
Config(showLineNo, keybindings) ==
  [ThemePreset |-> "default", HighContrast |-> FALSE, ShowLineNo |-> showLineNo,
   LineNumberWidth |-> 6, LinePadding |-> 0, LineSpacing |-> 0, Keybindings |-> keybindings]

\* config.DefaultConfig, with ShowLineNo as main sets it.
DefaultConfig(showLineNo) == Config(showLineNo, DefaultKeybindings)

\* panelType
noPanel == "noPanel"

helpPanel == "helpPanel"

statsPanel == "statsPanel"

statusPanel == "statusPanel"

branchPanel == "branchPanel"

historyPanel == "historyPanel"

\* The actions of the command entries refreshPaletteEntries lists, in order.
PaletteCommands ==
  << "ToggleHelp", "ToggleStats", "ToggleSideBySide", "ToggleSyntax", "ToggleWrap",
     "OpenSettings", "ToggleBlame", "GoTop", "GoBottom", "GoToLine" >>

\* The actions of the entries refreshSettingsEntries lists, in order.
SettingsEntries ==
  << "Theme", "Contrast", "LineNumbers", "LineNumberWidth", "LinePadding",
     "LineSpacing", "Keybindings" >>

paletteEntry(action, offsetTarget) == [action |-> action, offsetTarget |-> offsetTarget]

\* min of the TUI package.
min(a, b) == IF a < b THEN a ELSE b

\* displayLineNumber
displayLineNumber(line) ==
  IF line.LineNo2 > 0 THEN line.LineNo2
  ELSE IF line.LineNo1 > 0 THEN line.LineNo1
  ELSE 0

\* changeOffsets: the 0-based indexes of the records that start a run of records
\* that are not Equal.
changeOffsets(r) ==
  SelectSeq([n \in 1..Len(r.Lines) |-> n - 1],
            LAMBDA idx : /\ r.Lines[idx + 1].Type # Equal
                         /\ (idx = 0 \/ r.Lines[idx].Type = Equal))

\* The sequence without the later occurrences of its elements.
RECURSIVE unique(_)
unique(s) ==
  IF s = << >> THEN << >>
  ELSE LET front == unique(SubSeq(s, 1, Len(s) - 1))
       IN IF \E k \in 1..Len(front) : front[k] = s[Len(s)] THEN front
          ELSE Append(front, s[Len(s)])

\* lineAnchors for `total` lines: 1, the multiples of the step below total, total.
anchorsOf(total, step) ==
  unique(<< 1 >> \o [k \in 1..((total - 1) \div step) |-> k * step] \o << total >>)

\* lineAnchors
lineAnchors(r) ==
  IF Len(r.File2Lines) = 0 /\ Len(r.Lines) = 0 THEN << >>
  ELSE IF Len(r.File2Lines) = 0 THEN anchorsOf(Len(r.Lines), max(Len(r.Lines) \div 6, 10))
  ELSE anchorsOf(Len(r.File2Lines), max(Len(r.File2Lines) \div 6, 10))

\* offsetForLine: the index of the first record whose display number reaches
\* lineNumber, the last index when there is none.
offsetForLine(r, lineNumber) ==
  IF \E n \in 1..Len(r.Lines) : displayLineNumber(r.Lines[n]) >= lineNumber
                               /\ displayLineNumber(r.Lines[n]) > 0
    THEN (CHOOSE n \in 1..Len(r.Lines) :
            /\ displayLineNumber(r.Lines[n]) >= lineNumber
            /\ displayLineNumber(r.Lines[n]) > 0
            /\ \A k \in 1..(n - 1) : ~(/\ displayLineNumber(r.Lines[k]) >= lineNumber
                                        /\ displayLineNumber(r.Lines[k]) > 0)) - 1
  ELSE IF Len(r.Lines) = 0 THEN 0
  ELSE Len(r.Lines) - 1

\* The entries refreshPaletteEntries builds for the diff r.
paletteEntriesOf(r) ==
  [k \in 1..Len(PaletteCommands) |-> paletteEntry(PaletteCommands[k], 0)]
  \o [k \in 1..Len(changeOffsets(r)) |-> paletteEntry("JumpOffset", changeOffsets(r)[k])]
  \o [k \in 1..Len(lineAnchors(r)) |->
        paletteEntry("JumpOffset", offsetForLine(r, lineAnchors(r)[k]))]

\* refreshPaletteEntries without the clamp of paletteIndex.
refreshPaletteEntries_noClamp(m) ==
  [m EXCEPT !.paletteEntries = paletteEntriesOf(m.diffResult)]

\* refreshPaletteEntries
refreshPaletteEntries(m) ==
  [m EXCEPT !.paletteEntries = paletteEntriesOf(m.diffResult),
            !.paletteIndex = IF m.paletteIndex >= Len(paletteEntriesOf(m.diffResult))
                               THEN max(0, Len(paletteEntriesOf(m.diffResult)) - 1)
                               ELSE m.paletteIndex]

\* refreshSettingsEntries
refreshSettingsEntries(m) ==
  [m EXCEPT !.settingsIndex = IF m.settingsIndex >= Len(SettingsEntries)
                                THEN max(0, Len(SettingsEntries) - 1)
                                ELSE m.settingsIndex]

\* GitContext, for a program started on two files: git is not enabled.
NoGitContext ==
  [Enabled |-> FALSE, FilePath |-> << >>, Ref1 |-> << >>, Ref2 |-> << >>,
   Branches |-> << >>, Blame |-> "nil", ShowBlame |-> FALSE]

\* The GitContext loadGitDiff builds: git is enabled.
GitContext(filePath, ref1, ref2, branches, showBlame) ==
  [Enabled |-> TRUE, FilePath |-> filePath, Ref1 |-> ref1, Ref2 |-> ref2,
   Branches |-> branches, Blame |-> IF showBlame THEN "map" ELSE "nil",
   ShowBlame |-> showBlame]

\* NewModel
NewModel(diffResult, cfg, diffEngine, gitCtx) ==
  refreshSettingsEntries(refreshPaletteEntries(
    [diffResult |-> diffResult, config |-> cfg,
     keybindings |-> MergeKeybindings(cfg.Keybindings),
     overrideKeys |-> cfg.Keybindings,
     useOverrides |-> (DOMAIN cfg.Keybindings # {}),
     diffEngine |-> diffEngine,
     viewport |-> [offset |-> 0, height |-> 20],
     width |-> 0, height |-> 0,
     showHelp |-> FALSE, showStats |-> FALSE, showCommand |-> FALSE,
     sideBySideMode |-> FALSE, syntaxHighlight |-> TRUE, showBlame |-> gitCtx.ShowBlame,
     err |-> "", activePanel |-> noPanel, gitCtx |-> gitCtx,
     branchIndex |-> IF gitCtx.Enabled
                          /\ \E i \in 1..Len(gitCtx.Branches) : gitCtx.Branches[i] = gitCtx.Ref2
                       THEN (CHOOSE i \in 1..Len(gitCtx.Branches) :
                               /\ gitCtx.Branches[i] = gitCtx.Ref2
                               /\ \A k \in 1..(i - 1) : gitCtx.Branches[k] # gitCtx.Ref2) - 1
                       ELSE 0,
     paletteEntries |-> << >>, paletteIndex |-> 0, settingsIndex |-> 0,
     showSettings |-> FALSE, goToLineActive |-> FALSE,
     goToLineValue |-> << >>, goToLineError |-> "",
     wrapLines |-> FALSE, minimapWidth |-> 14, minimapStartCol |-> 0, minimapHeight |-> 0]))

\* tea.KeyMsg, by its String(): the keys with a type of their own, and the
\* keys that carry runes.
KeyEsc == "esc"

KeyEnter == "enter"

KeyBackspace == "backspace"

KeyDelete == "delete"

NamedKeys ==
  {KeyEsc, KeyEnter, KeyBackspace, KeyDelete, "ctrl+c", "ctrl+n", "up", "down",
   "left", "right", "tab"}

\* msg.Runes
Runes(msg) == IF msg \in NamedKeys THEN << >> ELSE << msg >>

Digits == {"0", "1", "2", "3", "4", "5", "6", "7", "8", "9"}

\* strconv.Atoi of a string of digits.
RECURSIVE Atoi(_)
Atoi(digits) ==
  IF digits = << >> THEN 0
  ELSE 10 * Atoi(SubSeq(digits, 1, Len(digits) - 1))
       + (CHOOSE d \in 0..9 : ToString(d) = digits[Len(digits)])

\* matchesKey
matchesKey(m, action, msg) == msg \in m.keybindings[action]

\* updateViewportHeight
panelHeight(m) ==
  CASE m.activePanel = helpPanel -> 12
    [] m.activePanel \in {statsPanel, statusPanel, branchPanel, historyPanel} -> 17
    [] OTHER -> 0

updateViewportHeight(m) ==
  [m EXCEPT !.viewport.height =
     max(5, m.height - 2 - panelHeight(m)
            - (IF m.showCommand THEN min(16, Len(m.paletteEntries) + 4) ELSE 0)
            - (IF m.showSettings THEN min(8, Len(SettingsEntries) + 4) ELSE 0)
            - (IF m.goToLineActive THEN 3 ELSE 0))]

maxOffset(m) == max(0, Len(m.diffResult.Lines) - m.viewport.height)

\* jumpToOffset
jumpToOffset(m, offset) ==
  [m EXCEPT !.viewport.offset = min(max(offset, 0), maxOffset(m))]

\* Scroll functions
scrollDown(m) ==
  IF m.viewport.offset < maxOffset(m)
    THEN [m EXCEPT !.viewport.offset = m.viewport.offset + 1] ELSE m

scrollUp(m) ==
  IF m.viewport.offset > 0
    THEN [m EXCEPT !.viewport.offset = m.viewport.offset - 1] ELSE m

halfPage(m) == max(m.viewport.height \div 2, 1)

scrollPageDown(m) ==
  [m EXCEPT !.viewport.offset = min(m.viewport.offset + halfPage(m), maxOffset(m))]

scrollPageUp(m) ==
  [m EXCEPT !.viewport.offset = max(m.viewport.offset - halfPage(m), 0)]

scrollToTop(m) == [m EXCEPT !.viewport.offset = 0]

scrollToBottom(m) == [m EXCEPT !.viewport.offset = maxOffset(m)]

\* jumpToNextChange: the first change below the viewport's offset, else the first.
jumpToNextChange(m) ==
  LET changes == changeOffsets(m.diffResult)
      below == SelectSeq(changes, LAMBDA off : off > m.viewport.offset)
  IN IF below # << >> THEN jumpToOffset(m, below[1])
     ELSE IF changes # << >> THEN jumpToOffset(m, changes[1])
     ELSE m

\* jumpToPreviousChange: the last change above the viewport's offset, else the last.
jumpToPreviousChange(m) ==
  LET changes == changeOffsets(m.diffResult)
      above == SelectSeq(changes, LAMBDA off : off < m.viewport.offset)
  IN IF above # << >> THEN jumpToOffset(m, above[Len(above)])
     ELSE IF changes # << >> THEN jumpToOffset(m, changes[Len(changes)])
     ELSE m

\* adjustMinimapWidth
adjustMinimapWidth(m, delta) ==
  [m EXCEPT !.minimapWidth = min(max(m.minimapWidth + delta, 6), max(m.width \div 3, 10))]

\* lineForMinimapRow
lineForMinimapRow(m, row) ==
  IF Len(m.diffResult.Lines) = 0 THEN 0
  ELSE min((min(max(row, 0), m.minimapHeight - 1) * Len(m.diffResult.Lines))
             \div max(m.minimapHeight, 1),
           Len(m.diffResult.Lines) - 1)

\* tea.MouseMsg
MouseMsg(action, x, y) == [Action |-> action, X |-> x, Y |-> y]

\* handleMouse
handleMouse(m, msg) ==
  IF msg.Action \notin {"press", "release"} THEN m
  ELSE IF m.minimapStartCol = 0 \/ msg.X < m.minimapStartCol THEN m
  ELSE IF msg.Y < 2 \/ msg.Y >= 2 + m.minimapHeight THEN m
  ELSE jumpToOffset(m, lineForMinimapRow(m, msg.Y - 2))

\* togglePanel
togglePanel(m, target) ==
  updateViewportHeight(
    [m EXCEPT !.activePanel = IF m.activePanel = target THEN noPanel ELSE target,
              !.showHelp = (m.activePanel # target /\ target = helpPanel),
              !.showStats = (m.activePanel # target /\ target = statsPanel),
              !.showCommand = FALSE,
              !.goToLineActive = FALSE])

\* toggleSettings
toggleSettings(m) ==
  updateViewportHeight(
    IF ~m.showSettings
      THEN refreshSettingsEntries([m EXCEPT !.showSettings = TRUE, !.showCommand = FALSE,
                                            !.goToLineActive = FALSE])
      ELSE [m EXCEPT !.showSettings = FALSE, !.settingsIndex = 0])

\* toggleCommandPalette
toggleCommandPalette(m) ==
  updateViewportHeight(refreshPaletteEntries(
    [m EXCEPT !.showCommand = ~m.showCommand, !.activePanel = noPanel,
              !.goToLineActive = FALSE]))

\* openGoToLineDialog without m.showCommand = false.
openGoToLineDialog_keepsPalette(m) ==
  updateViewportHeight(
    [m EXCEPT !.goToLineActive = TRUE, !.goToLineValue = << >>, !.goToLineError = "",
              !.showSettings = FALSE])

\* openGoToLineDialog
openGoToLineDialog(m) ==
  updateViewportHeight(
    [m EXCEPT !.goToLineActive = TRUE, !.goToLineValue = << >>, !.goToLineError = "",
              !.showSettings = FALSE, !.showCommand = FALSE])

\* What git answers when the model asks: the lines of the two refs, whether a
\* read fails, whether blame fails.
GitAnswer(left, right, readFails, blameFails) ==
  [lines1 |-> left, lines2 |-> right, readFails |-> readFails, blameFails |-> blameFails]

\* m.gitCtx.Blame, m.err = m.collectBlame()
withBlame(m, git) ==
  [m EXCEPT !.gitCtx.Blame = "map", !.err = IF git.blameFails THEN "blame" ELSE ""]

\* The toggle of showBlame, in Update and in executePaletteSelection.
toggleBlame(m, git) ==
  IF ~m.showBlame /\ m.gitCtx.Enabled /\ m.gitCtx.Blame = "nil"
    THEN withBlame([m EXCEPT !.showBlame = TRUE], git)
    ELSE [m EXCEPT !.showBlame = ~m.showBlame]

\* fmt.Sprintf("%s:%s", ref, path)
Label(ref, path) == ref \o << ":" >> \o path

\* A nil *diff.Engine.
NilEngine == << >>

\* reloadDiff
reloadDiff(m, git) ==
  IF m.diffEngine = NilEngine \/ ~m.gitCtx.Enabled THEN m
  ELSE IF git.readFails THEN [m EXCEPT !.err = "read"]
  ELSE refreshPaletteEntries(
         [m EXCEPT !.diffResult = DiffLines(m.diffEngine, git.lines1, git.lines2,
                                            Label(m.gitCtx.Ref1, m.gitCtx.FilePath),
                                            Label(m.gitCtx.Ref2, m.gitCtx.FilePath)),
                   !.gitCtx.Blame = IF m.showBlame THEN "map" ELSE m.gitCtx.Blame])

\* The branch at branchIndex becomes Ref2 and the diff is reloaded.
selectBranch(m, index, git) ==
  reloadDiff([m EXCEPT !.branchIndex = index,
                       !.gitCtx.Ref2 = m.gitCtx.Branches[index + 1]], git)

\* selectNextBranch
selectNextBranch(m, git) ==
  IF ~m.gitCtx.Enabled \/ Len(m.gitCtx.Branches) = 0 THEN m
  ELSE selectBranch(m, (m.branchIndex + 1) % Len(m.gitCtx.Branches), git)

\* selectPreviousBranch
selectPreviousBranch(m, git) ==
  IF ~m.gitCtx.Enabled \/ Len(m.gitCtx.Branches) = 0 THEN m
  ELSE selectBranch(m, IF m.branchIndex - 1 < 0 THEN Len(m.gitCtx.Branches) - 1
                       ELSE m.branchIndex - 1, git)

\* cycleInt
cycleInt(options, current, direction) ==
  LET idx == IF \E i \in 1..Len(options) : options[i] = current
               THEN (CHOOSE i \in 1..Len(options) :
                       /\ options[i] = current
                       /\ \A k \in 1..(i - 1) : options[k] # current) - 1
               ELSE 0
  IN options[((idx + direction + Len(options)) % Len(options)) + 1]

ThemePresets == << "default", "solarized", "dracula" >>

\* applySettingsAction
applySettingsAction(m, direction) ==
  refreshSettingsEntries(
    CASE SettingsEntries[m.settingsIndex + 1] = "Theme" ->
           [m EXCEPT !.config.ThemePreset =
                       cycleInt(ThemePresets, m.config.ThemePreset, direction)]
      [] SettingsEntries[m.settingsIndex + 1] = "Contrast" ->
           [m EXCEPT !.config.HighContrast = ~m.config.HighContrast]
      [] SettingsEntries[m.settingsIndex + 1] = "LineNumbers" ->
           [m EXCEPT !.config.ShowLineNo = ~m.config.ShowLineNo]
      [] SettingsEntries[m.settingsIndex + 1] = "LineNumberWidth" ->
           [m EXCEPT !.config.LineNumberWidth =
                       cycleInt(<< 4, 6, 8 >>, m.config.LineNumberWidth, direction)]
      [] SettingsEntries[m.settingsIndex + 1] = "LinePadding" ->
           [m EXCEPT !.config.LinePadding =
                       cycleInt(<< 0, 1, 2 >>, m.config.LinePadding, direction)]
      [] SettingsEntries[m.settingsIndex + 1] = "LineSpacing" ->
           [m EXCEPT !.config.LineSpacing =
                       cycleInt(<< 0, 1, 2 >>, m.config.LineSpacing, direction)]
      [] OTHER ->
           IF DOMAIN m.overrideKeys = {} \/ m.useOverrides
             THEN [m EXCEPT !.keybindings = DefaultKeybindings, !.useOverrides = FALSE,
                            !.config.Keybindings = << >>]
             ELSE [m EXCEPT !.keybindings = MergeKeybindings(m.overrideKeys),
                            !.useOverrides = TRUE,
                            !.config.Keybindings = m.overrideKeys])

\* handleSettingsInput
handleSettingsInput(m, msg) ==
  CASE msg = "esc" -> updateViewportHeight([m EXCEPT !.showSettings = FALSE])
    [] msg \in {"up", "k"} -> [m EXCEPT !.settingsIndex = max(m.settingsIndex - 1, 0)]
    [] msg \in {"down", "j"} ->
         [m EXCEPT !.settingsIndex = min(m.settingsIndex + 1, Len(SettingsEntries) - 1)]
    [] msg \in {"left", "h"} -> applySettingsAction(m, -1)
    [] msg \in {"right", "l", "enter", " "} -> applySettingsAction(m, 1)
    [] OTHER -> m

\* movePaletteSelection
movePaletteSelection(m, delta) ==
  IF Len(m.paletteEntries) = 0 THEN m
  ELSE [m EXCEPT !.paletteIndex =
          min(max(m.paletteIndex + delta, 0), Len(m.paletteEntries) - 1)]

\* The entry's action in executePaletteSelection.
paletteActionOf(m, entry, git) ==
  CASE entry.action = "ToggleHelp" -> togglePanel(m, helpPanel)
    [] entry.action = "ToggleStats" -> togglePanel(m, statsPanel)
    [] entry.action = "ToggleSideBySide" -> [m EXCEPT !.sideBySideMode = ~m.sideBySideMode]
    [] entry.action = "ToggleSyntax" -> [m EXCEPT !.syntaxHighlight = ~m.syntaxHighlight]
    [] entry.action = "ToggleBlame" -> toggleBlame(m, git)
    [] entry.action = "ToggleWrap" -> [m EXCEPT !.wrapLines = ~m.wrapLines]
    [] entry.action = "OpenSettings" -> toggleSettings(m)
    [] entry.action = "GoTop" -> scrollToTop(m)
    [] entry.action = "GoBottom" -> scrollToBottom(m)
    [] entry.action = "GoToLine" -> openGoToLineDialog(m)
    [] entry.action = "JumpOffset" -> jumpToOffset(m, entry.offsetTarget)

closePaletteUnless(m, keepOpen) ==
  updateViewportHeight(refreshPaletteEntries(
    IF keepOpen THEN m ELSE [m EXCEPT !.showCommand = FALSE]))

\* executePaletteSelection
executePaletteSelection(m, git) ==
  IF Len(m.paletteEntries) = 0 THEN m
  ELSE closePaletteUnless(paletteActionOf(m, m.paletteEntries[m.paletteIndex + 1], git),
                          m.paletteEntries[m.paletteIndex + 1].action = "GoToLine")

\* handlePaletteInput
handlePaletteInput(m, msg, git) ==
  CASE msg \in {"esc", "q"} -> updateViewportHeight([m EXCEPT !.showCommand = FALSE])
    [] msg \in {"up", "k"} -> movePaletteSelection(m, -1)
    [] msg \in {"down", "j"} -> movePaletteSelection(m, 1)
    [] msg \in {"enter", " "} -> executePaletteSelection(m, git)
    [] OTHER -> m

\* applyGoToLine with the check lineNumber < 0 in place of lineNumber < 1.
applyGoToLine_acceptsZero(m) ==
  IF m.goToLineValue = << >> THEN [m EXCEPT !.goToLineError = "Enter a line number"]
  ELSE IF Atoi(m.goToLineValue) < 0 THEN [m EXCEPT !.goToLineError = "Invalid line"]
  ELSE updateViewportHeight(
         [jumpToOffset(m, offsetForLine(m.diffResult, Atoi(m.goToLineValue)))
            EXCEPT !.goToLineActive = FALSE, !.goToLineError = ""])

\* applyGoToLine
applyGoToLine(m) ==
  IF m.goToLineValue = << >> THEN [m EXCEPT !.goToLineError = "Enter a line number"]
  ELSE IF Atoi(m.goToLineValue) < 1 THEN [m EXCEPT !.goToLineError = "Invalid line"]
  ELSE updateViewportHeight(
         [jumpToOffset(m, offsetForLine(m.diffResult, Atoi(m.goToLineValue)))
            EXCEPT !.goToLineActive = FALSE, !.goToLineError = ""])

\* handleGoToLineInput with an Esc that clears the value and leaves the dialog open.
handleGoToLineInput_escKeepsOpen(m, msg) ==
  CASE msg = KeyEsc ->
         updateViewportHeight([m EXCEPT !.goToLineValue = << >>, !.goToLineError = ""])
    [] msg = KeyEnter -> applyGoToLine(m)
    [] msg \in {KeyBackspace, KeyDelete} ->
         IF Len(m.goToLineValue) > 0
           THEN [m EXCEPT !.goToLineValue = SubSeq(m.goToLineValue, 1, Len(m.goToLineValue) - 1)]
           ELSE m
    [] OTHER ->
         [m EXCEPT !.goToLineValue =
            m.goToLineValue \o SelectSeq(Runes(msg), LAMBDA r : r \in Digits)]

\* handleGoToLineInput
handleGoToLineInput(m, msg) ==
  CASE msg = KeyEsc ->
         updateViewportHeight([m EXCEPT !.goToLineActive = FALSE, !.goToLineValue = << >>,
                                        !.goToLineError = ""])
    [] msg = KeyEnter -> applyGoToLine(m)
    [] msg \in {KeyBackspace, KeyDelete} ->
         IF Len(m.goToLineValue) > 0
           THEN [m EXCEPT !.goToLineValue = SubSeq(m.goToLineValue, 1, Len(m.goToLineValue) - 1)]
           ELSE m
    [] OTHER ->
         [m EXCEPT !.goToLineValue =
            m.goToLineValue \o SelectSeq(Runes(msg), LAMBDA r : r \in Digits)]

\* tea.Cmd
NoCmd == "nil"

Quit == "tea.Quit"

Updated(m, cmd) == [model |-> m, cmd |-> cmd]

\* The key actions of Update when no modal is open, in the order of the switch.
keyAction(m, msg, git) ==
  CASE matchesKey(m, "quit", msg) -> Updated(m, Quit)
    [] matchesKey(m, "toggle_help", msg) -> Updated(togglePanel(m, helpPanel), NoCmd)
    [] matchesKey(m, "toggle_stats", msg) -> Updated(togglePanel(m, statsPanel), NoCmd)
    [] matchesKey(m, "toggle_status", msg) -> Updated(togglePanel(m, statusPanel), NoCmd)
    [] matchesKey(m, "toggle_branches", msg) -> Updated(togglePanel(m, branchPanel), NoCmd)
    [] matchesKey(m, "toggle_history", msg) -> Updated(togglePanel(m, historyPanel), NoCmd)
    [] matchesKey(m, "toggle_palette", msg) -> Updated(toggleCommandPalette(m), NoCmd)
    [] matchesKey(m, "toggle_settings", msg) -> Updated(toggleSettings(m), NoCmd)
    [] matchesKey(m, "toggle_side_by_side", msg) ->
         Updated([m EXCEPT !.sideBySideMode = ~m.sideBySideMode], NoCmd)
    [] matchesKey(m, "toggle_syntax", msg) ->
         Updated([m EXCEPT !.syntaxHighlight = ~m.syntaxHighlight], NoCmd)
    [] matchesKey(m, "toggle_wrap", msg) -> Updated([m EXCEPT !.wrapLines = ~m.wrapLines], NoCmd)
    [] matchesKey(m, "toggle_blame", msg) -> Updated(toggleBlame(m, git), NoCmd)
    [] matchesKey(m, "toggle_line_numbers", msg) ->
         Updated([m EXCEPT !.config.ShowLineNo = ~m.config.ShowLineNo], NoCmd)
    [] matchesKey(m, "minimap_narrow", msg) -> Updated(adjustMinimapWidth(m, -2), NoCmd)
    [] matchesKey(m, "minimap_widen", msg) -> Updated(adjustMinimapWidth(m, 2), NoCmd)
    [] matchesKey(m, "next_change", msg) -> Updated(jumpToNextChange(m), NoCmd)
    [] matchesKey(m, "prev_change", msg) -> Updated(jumpToPreviousChange(m), NoCmd)
    [] matchesKey(m, "scroll_down", msg) -> Updated(scrollDown(m), NoCmd)
    [] matchesKey(m, "scroll_up", msg) -> Updated(scrollUp(m), NoCmd)
    [] matchesKey(m, "page_down", msg) -> Updated(scrollPageDown(m), NoCmd)
    [] matchesKey(m, "page_up", msg) -> Updated(scrollPageUp(m), NoCmd)
    [] matchesKey(m, "go_top", msg) -> Updated(scrollToTop(m), NoCmd)
    [] matchesKey(m, "go_bottom", msg) -> Updated(scrollToBottom(m), NoCmd)
    [] matchesKey(m, "go_line", msg) -> Updated(openGoToLineDialog(m), NoCmd)
    [] matchesKey(m, "prev_branch", msg) -> Updated(selectPreviousBranch(m, git), NoCmd)
    [] matchesKey(m, "next_branch", msg) -> Updated(selectNextBranch(m, git), NoCmd)
    [] OTHER -> Updated(m, NoCmd)

\* Update, on a tea.KeyMsg: an open dialog, palette or settings modal takes the
\* key, in that order, and the command is nil.
UpdateKey(m, msg, git) ==
  IF m.goToLineActive THEN Updated(handleGoToLineInput(m, msg), NoCmd)
  ELSE IF m.showCommand THEN Updated(handlePaletteInput(m, msg, git), NoCmd)
  ELSE IF m.showSettings THEN Updated(handleSettingsInput(m, msg), NoCmd)
  ELSE keyAction(m, msg, git)

\* Update, on a tea.WindowSizeMsg.
UpdateWindowSize(m, width, height) ==
  Updated(updateViewportHeight([m EXCEPT !.width = width, !.height = height]), NoCmd)

\* Update, on a tea.MouseMsg.
UpdateMouse(m, msg) == Updated(handleMouse(m, msg), NoCmd)

\* The longest digit string typed into the go-to-line dialog.
MaxDigits == 2

\* main, lines 356-357: the model of a diff with changes, handed to tea.NewProgram.
TuiStart(l1, l2, showLineNo) ==
  /\ tuiModel = << >>
  /\ HasChanges(DiffLines(NewEngine(MainEngineOptions, << >>), l1, l2, File1, File2))
  /\ tuiModel' = NewModel(DiffLines(NewEngine(MainEngineOptions, << >>), l1, l2, File1, File2),
                          DefaultConfig(showLineNo), NewEngine(MainEngineOptions, << >>),
                          NoGitContext)
  /\ lastMsg' = "start"
  /\ lastGit' = << >>
  /\ tuiCmd' = NoCmd
  /\ UNCHANGED << engineVars, mainVars, concVars, callVars >>

\* The program runs until Update returns tea.Quit.
Running == tuiModel # << >> /\ tuiCmd # Quit

\* bubbletea delivers a key to Update and keeps the model Update returns.
TuiKey(msg, git) ==
  /\ Running
  /\ tuiModel.goToLineActive => Len(tuiModel.goToLineValue) + Len(Runes(msg)) <= MaxDigits
  /\ tuiModel' = UpdateKey(tuiModel, msg, git).model
  /\ tuiCmd' = UpdateKey(tuiModel, msg, git).cmd
  /\ lastMsg' = msg
  /\ lastGit' = git
  /\ UNCHANGED << engineVars, mainVars, concVars, callVars >>

\* bubbletea delivers the size of the terminal.
TuiWindowSize(width, height) ==
  /\ Running
  /\ tuiModel' = UpdateWindowSize(tuiModel, width, height).model
  /\ tuiCmd' = UpdateWindowSize(tuiModel, width, height).cmd
  /\ lastMsg' = "resize"
  /\ lastGit' = << >>
  /\ UNCHANGED << engineVars, mainVars, concVars, callVars >>

\* bubbletea delivers a mouse event.
TuiMouse(msg) ==
  /\ Running
  /\ tuiModel' = UpdateMouse(tuiModel, msg).model
  /\ tuiCmd' = UpdateMouse(tuiModel, msg).cmd
  /\ lastMsg' = "mouse"
  /\ lastGit' = << >>
  /\ UNCHANGED << engineVars, mainVars, concVars, callVars >>

\* The keys pressed: the quit keys, the keys that open and close the palette, the
\* settings modal and the go-to-line dialog, and the keys used inside them.
Keys == {"q", "ctrl+c", "esc", "p", ",", "L", "enter", "1", "backspace"}

WindowSizes == {<< 80, 24 >>}

MouseMsgs == {MouseMsg("press", 70, 3)}

NoGit == GitAnswer(<< >>, << >>, FALSE, FALSE)

StartTui ==
  \E l1 \in {<< LineBase >>}, l2 \in {<< LineVariant >>, << LineBase, LineVariant >>} :
    \E showLineNo \in BOOLEAN : TuiStart(l1, l2, showLineNo)

PressKey == \E msg \in Keys : TuiKey(msg, NoGit)

Resize == \E size \in WindowSizes : TuiWindowSize(size[1], size[2])

MoveMouse == \E msg \in MouseMsgs : TuiMouse(msg)

TuiNext == StartTui \/ PressKey \/ Resize \/ MoveMouse

TuiSpec == Init /\ [][TuiNext]_vars

\* ------------------------------------------------- calls of one function
\* tokens := tokenizer.Tokenize(line)
CallTokenize(pattern, line) ==
  /\ callee = ""
  /\ callee' = "Tokenize"
  /\ args' = [pattern |-> pattern, line |-> line]
  /\ ret' = Tokenize(pattern, line)
  /\ UNCHANGED << engineVars, mainVars, concVars, tuiVars >>

\* leftHighlights, rightHighlights = e.tokenHighlights(left, right, tokenizer),
\* with the token lists and the opcodes it computed on the way.
CallTokenHighlights(left, right, tokenizer) ==
  /\ callee = ""
  /\ callee' = "tokenHighlights"
  /\ args' = [left |-> left, right |-> right, tokenizer |-> tokenizer]
  /\ ret' = [leftTokens |-> Tokenize(tokenizer, left),
             rightTokens |-> Tokenize(tokenizer, right),
             opcodes |-> GetOpCodes(tokenValues(Tokenize(tokenizer, left)),
                                    tokenValues(Tokenize(tokenizer, right))),
             highlights |-> tokenHighlights(left, right, tokenizer)]
  /\ UNCHANGED << engineVars, mainVars, concVars, tuiVars >>

\* merged := mergeHighlights(highlights)
CallMergeHighlights(highlights) ==
  /\ callee = ""
  /\ callee' = "mergeHighlights"
  /\ args' = highlights
  /\ ret' = mergeHighlights(highlights)
  /\ UNCHANGED << engineVars, mainVars, concVars, tuiVars >>

\* strings.TrimSuffix(text, "\n")
TrimSuffixNewline(text) ==
  IF Len(text) > 0 /\ text[Len(text)] = "\n" THEN SubSeq(text, 1, Len(text) - 1) ELSE text

\* strings.Split(text, "\n"): the pieces between the newlines, one more than
\* there are newlines; the empty text gives one empty piece.
RECURSIVE SplitLines(_)
SplitLines(text) ==
  IF \A k \in 1..Len(text) : text[k] # "\n" THEN << text >>
  ELSE << SubSeq(text, 1, (CHOOSE k \in 1..Len(text) :
                             text[k] = "\n" /\ \A j \in 1..(k - 1) : text[j] # "\n") - 1) >>
       \o SplitLines(SubSeq(text, (CHOOSE k \in 1..Len(text) :
                                     text[k] = "\n" /\ \A j \in 1..(k - 1) : text[j] # "\n") + 1,
                            Len(text)))

\* The refs: none given, the working tree, a commit.
RefNone == << >>

RefWorktree == <<"W", "O", "R", "K", "T", "R", "E", "E">>

RefHead == <<"H", "E", "A", "D">>

\* What reading a ref returns: the lines and the error ("" for nil).
ReadReturn(lines, readErr) == [lines |-> lines, err |-> readErr]

\* readLinesFromGit of main: data is what os.ReadFile of the file, or git show
\* of ref:path, yields; fails: the read or the command ends with an error.
readLinesFromGit(ref, data, fails) ==
  IF ref \in {RefNone, RefWorktree}
    THEN IF fails THEN ReadReturn(<< >>, "read")
         ELSE ReadReturn(SplitLines(TrimSuffixNewline(data)), "")
  ELSE IF fails THEN ReadReturn(<< >>, "show")
  ELSE IF TrimSuffixNewline(data) = << >> THEN ReadReturn(<< >>, "")
  ELSE ReadReturn(SplitLines(TrimSuffixNewline(data)), "")

\* Model.readLinesForRef
readLinesForRef(ref, data, fails) ==
  IF ref \in {RefNone, RefWorktree}
    THEN IF fails THEN ReadReturn(<< >>, "read")
         ELSE IF TrimSuffixNewline(data) = << >> THEN ReadReturn(<< >>, "")
         ELSE ReadReturn(SplitLines(TrimSuffixNewline(data)), "")
  ELSE IF fails THEN ReadReturn(<< >>, "show")
  ELSE IF TrimSuffixNewline(data) = << >> THEN ReadReturn(<< >>, "")
  ELSE ReadReturn(SplitLines(TrimSuffixNewline(data)), "")

\* The same ref of the same file read by main and by the model of the TUI.
CallReadLines(ref, data, fails) ==
  /\ callee' = "readLines"
  /\ args' = [ref |-> ref, data |-> data, fails |-> fails]
  /\ ret' = [initial |-> readLinesFromGit(ref, data, fails),
             reloaded |-> readLinesForRef(ref, data, fails)]
  /\ UNCHANGED << engineVars, mainVars, concVars, tuiVars >>

\* The lines given to Tokenize and tokenHighlights: the lines of LinePool, lines
\* of runes no pattern matches, a line with a comment and lines of words,
\* numbers and operators.
LineAccents == <<"é", "é">>

LineComment == <<"é", " ", "#", "é">>

LineWords == <<"x", "1", " ", "b", "=", "=", "2">>

LineHex == <<"0", "x", "1", " ", "2">>

CallLines == LinePool \cup {LineAccents, LineComment, LineWords, LineHex}

\* The tokenizers: the default one and those of configured patterns.
CallPatterns ==
  {defaultTokenPattern, LettersPattern, DigitsPattern, CommentPattern, DigitsOptPattern}

\* The largest offset of a span given to mergeHighlights, and the longest list.
MaxOffset == 2

MaxSpans == 3

\* Spans of every shape: of positive width, of width zero, and with End < Start.
SpanPool == {Highlight(a, b) : a \in 0..MaxOffset, b \in 0..MaxOffset}

SpanLists == SeqsUpTo(SpanPool, MaxSpans)

\* One call is made from the idle state; nothing is called after it returned.
TokenizeLine ==
  /\ callee = ""
  /\ \E pattern \in CallPatterns, line \in CallLines : CallTokenize(pattern, line)

HighlightPair ==
  /\ callee = ""
  /\ \E left \in CallLines, right \in CallLines, tokenizer \in CallPatterns :
       CallTokenHighlights(left, right, tokenizer)

MergeSpans ==
  /\ callee = ""
  /\ \E highlights \in SpanLists : CallMergeHighlights(highlights)

\* The longest file read, in bytes, and the files: every text of "a" and "\n".
MaxText == 3

FileTexts == SeqsUpTo({"a", "\n"}, MaxText)

ReadLines ==
  /\ callee = ""
  /\ \E ref \in {RefNone, RefWorktree, RefHead}, data \in FileTexts, fails \in BOOLEAN :
       CallReadLines(ref, data, fails)

CallNext == TokenizeLine \/ HighlightPair \/ MergeSpans \/ ReadLines

CallSpec == Init /\ [][CallNext]_vars

\* --------------------------------------------------- the TUI on a long diff
\* p.Run() of main: bubbletea starts with the model NewModel returned.
TuiRun(model) ==
  /\ tuiModel = << >>
  /\ tuiModel' = model
  /\ lastMsg' = "start"
  /\ lastGit' = << >>
  /\ tuiCmd' = NoCmd
  /\ UNCHANGED << engineVars, mainVars, concVars, callVars >>

\* Two files of seven lines: the second has a line more after the first line
\* and lacks the last line of the first.
LongLeft ==
  << LineBase, LineEmpty, LineAccents, LineComment, LineWords, LineHex, LineSpaced >>

LongRight ==
  << LineBase, LineVariant, LineEmpty, LineAccents, LineComment, LineWords, LineHex >>

\* diffResult of main for the two files: eight records, an Added one at offset 1
\* and a Removed one at offset 7.
LongDiff == DiffLines(NewEngine(MainEngineOptions, << >>), LongLeft, LongRight, File1, File2)

\* The keys pressed: next_change, go_bottom, toggle_help, go_line, digits, Enter,
\* Esc and Backspace.
ViewKeys == {"n", "G", "?", "L", "0", "3", "9", "enter", "esc", "backspace"}

\* A terminal of 9 rows and one of 24 rows.
ViewSizes == {<< 80, 9 >>, << 80, 24 >>}

StartView ==
  TuiRun(NewModel(LongDiff, DefaultConfig(TRUE), NewEngine(MainEngineOptions, << >>),
                  NoGitContext))

PressViewKey == \E msg \in ViewKeys : TuiKey(msg, NoGit)

ResizeView == \E size \in ViewSizes : TuiWindowSize(size[1], size[2])

ViewNext == StartView \/ PressViewKey \/ ResizeView \/ MoveMouse

ViewSpec == Init /\ [][ViewNext]_vars

\* ------------------------------------------- the TUI, palette and settings
\* The keys pressed: those that open the palette, the settings modal, the
\* go-to-line dialog and the help panel, the keys that move the selection and
\* execute it, Esc and q.
PaletteKeys == {"p", ",", "L", "?", "j", "enter", "esc", "q"}

\* The entries of the palette the user executes, and the settings the user
\* changes.
ExecutedEntries == {"ToggleHelp", "OpenSettings", "GoToLine", "JumpOffset"}

ChangedSettings == {"Theme"}

\* The key msg executes an entry the user does not execute.
Unused(m, msg) ==
  /\ msg = KeyEnter
  /\ ~m.goToLineActive
  /\ \/ m.showCommand /\ m.paletteEntries[m.paletteIndex + 1].action \notin ExecutedEntries
     \/ ~m.showCommand /\ m.showSettings
          /\ SettingsEntries[m.settingsIndex + 1] \notin ChangedSettings

StartPalette ==
  TuiRun(NewModel(DiffLines(NewEngine(MainEngineOptions, << >>),
                            << LineBase >>, << LineVariant >>, File1, File2),
                  DefaultConfig(TRUE), NewEngine(MainEngineOptions, << >>), NoGitContext))

PressPaletteKey ==
  /\ Running
  /\ \E msg \in PaletteKeys : ~Unused(tuiModel, msg) /\ TuiKey(msg, NoGit)

PaletteNext == StartPalette \/ PressPaletteKey

PaletteSpec == Init /\ [][PaletteNext]_vars

\* ------------------------------------------------- the TUI in a repository
\* Two branches of the repository.
RefMain == <<"m", "a", "i", "n">>

RefDev == <<"d", "e", "v">>

\* loadGitDiff of main for the refs HEAD and WORKTREE of the file a.go.
GitDiff ==
  DiffLines(NewEngine(MainEngineOptions, << >>), LongLeft, LongRight,
            Label(RefHead, NameGo), Label(RefWorktree, NameGo))

\* The contexts the model is built with: git with two branches, git without a
\* branch (git branch failed or listed none), and no git.
GitContexts ==
  {GitContext(NameGo, RefHead, RefWorktree, branches, FALSE) :
     branches \in {<< >>, << RefMain, RefDev >>}}
    \cup {NoGitContext}

\* The models NewModel is asked for: with the engine of main in each context,
\* and without an engine in a repository with branches.
BranchModels ==
  {NewModel(GitDiff, DefaultConfig(TRUE), NewEngine(MainEngineOptions, << >>), gitCtx) :
     gitCtx \in GitContexts}
    \cup {NewModel(GitDiff, DefaultConfig(TRUE), NilEngine,
                   GitContext(NameGo, RefHead, RefWorktree, << RefMain, RefDev >>, FALSE))}

\* What git answers when a branch is selected: two files of one line that
\* differ, two equal files of one line, or an error.
GitAnswers ==
  {GitAnswer(<< LineBase >>, << LineVariant >>, FALSE, FALSE),
   GitAnswer(<< LineBase >>, << LineBase >>, FALSE, FALSE),
   GitAnswer(<< >>, << >>, TRUE, FALSE)}

\* The keys pressed: next_branch and prev_branch, the keys that open the palette
\* and the settings modal, move the selection and close the palette.
BranchKeys == {"]", "[", "p", ",", "j", "q"}

StartBranches == \E model \in BranchModels : TuiRun(model)

\* Git is asked when a key reaches next_branch or prev_branch of the main switch.
AsksGit(m, msg) ==
  msg \in {"]", "["} /\ ~m.goToLineActive /\ ~m.showCommand /\ ~m.showSettings

PressBranchKey ==
  /\ Running
  /\ \E msg \in BranchKeys :
       \E git \in (IF AsksGit(tuiModel, msg) THEN GitAnswers ELSE {NoGit}) : TuiKey(msg, git)

BranchNext == StartBranches \/ PressBranchKey

BranchSpec == Init /\ [][BranchNext]_vars

\* ------------------------------------------------------------ properties
\* The records of the result that belong to side A (not Added), in order.
SideA == SelectSeq(result.Lines, LAMBDA r : r.Type # Added)

\* The records of the result that belong to side B (not Removed), in order.
SideB == SelectSeq(result.Lines, LAMBDA r : r.Type # Removed)

Contents(records) == [n \in 1..Len(records) |-> records[n].Content]

RecordIndexes == 1..Len(result.Lines)

\* C1, as stated: in every result the contents of the records that are not Added
\* are exactly linesA and the contents of the records that are not Removed are
\* exactly linesB.
C1_PartitionExact ==
  pc = "done" => /\ Contents(SideA) = lines1
                 /\ Contents(SideB) = lines2

\* C1, amended: the contents of the records that are not Added are exactly
\* linesA; the records that are not Removed match linesB line for line, exactly
\* for Added records and up to normalization (equal keys) for Equal records.
C1_PartitionUpToNormalization ==
  pc = "done" =>
    /\ Contents(SideA) = lines1
    /\ Len(SideB) = Len(lines2)
    /\ \A n \in 1..Len(SideB) :
         IF SideB[n].Type = Added
           THEN SideB[n].Content = lines2[n]
           ELSE normalizeLine(engine, SideB[n].Content) = normalizeLine(engine, lines2[n])

\* A result with the three record types in which an Equal record shows a line of
\* linesA that differs from the line of linesB it stands for.
C1_Witness ==
  /\ pc = "done"
  /\ {result.Lines[n].Type : n \in RecordIndexes} = {Equal, Added, Removed}
  /\ \E n \in 1..Len(SideB) : SideB[n].Type = Equal /\ SideB[n].Content # lines2[n]

\* C2: no panic of the sequence matcher reaches the caller of DiffLines.
C2_DiffLinesNeverPanics == panicIn # "DiffLines"

C4_ContentIsOriginalLine ==
  pc = "done" =>
    \A n \in RecordIndexes :
      LET r == result.Lines[n] IN
      IF r.Type = Added
        THEN r.LineNo2 \in 1..Len(lines2) /\ r.Content = lines2[r.LineNo2]
        ELSE r.LineNo1 \in 1..Len(lines1) /\ r.Content = lines1[r.LineNo1]

\* A result with an Equal record and a Removed record whose lines differ from
\* their normalized keys.
C4_Witness ==
  /\ pc = "done"
  /\ \E n \in RecordIndexes :
       /\ result.Lines[n].Type = Equal
       /\ normalizeLine(engine, result.Lines[n].Content) # result.Lines[n].Content
  /\ \E n \in RecordIndexes :
       /\ result.Lines[n].Type = Removed
       /\ normalizeLine(engine, result.Lines[n].Content) # result.Lines[n].Content

\* C5: Equal records have both line numbers >= 1, Added records LineNo1 = 0 and
\* LineNo2 >= 1, Removed records LineNo2 = 0 and LineNo1 >= 1.
C5_LineNumberPresence ==
  pc = "done" =>
    \A n \in RecordIndexes :
      LET r == result.Lines[n] IN
      CASE r.Type = Equal -> r.LineNo1 >= 1 /\ r.LineNo2 >= 1
        [] r.Type = Added -> r.LineNo1 = 0 /\ r.LineNo2 >= 1
        [] r.Type = Removed -> r.LineNo2 = 0 /\ r.LineNo1 >= 1
        [] OTHER -> FALSE

\* A result that starts with a record of each side and holds the three types.
C5_Witness ==
  /\ pc = "done"
  /\ Len(result.Lines) >= 3
  /\ result.Lines[1].Type = Removed
  /\ result.Lines[2].Type = Added
  /\ \E n \in RecordIndexes : result.Lines[n].Type = Equal

\* The Equal records of the result.
EqualRecords == {result.Lines[n] : n \in {m \in RecordIndexes : result.Lines[m].Type = Equal}}

\* C6, as stated: the two lines an Equal record pairs have the same content,
\* under every configuration.
C6_EqualRecordsSameContent ==
  pc = "done" => \A r \in EqualRecords : lines1[r.LineNo1] = lines2[r.LineNo2]

\* C6, amended: the two lines an Equal record pairs have the same normalized
\* key; they have the same content when the engine has no ignore-pattern and
\* does not ignore whitespace.
C6_EqualRecordsSameKey ==
  pc = "done" =>
    \A r \in EqualRecords :
      /\ normalizeLine(engine, lines1[r.LineNo1]) = normalizeLine(engine, lines2[r.LineNo2])
      /\ (engine.ignorePatterns = << >> /\ ~engine.options.IgnoreWhitespace)
           => lines1[r.LineNo1] = lines2[r.LineNo2]

\* An Equal record, after an Added one, pairing two lines that differ.
C6_Witness ==
  /\ pc = "done"
  /\ \E n \in RecordIndexes : \E m \in 1..(n - 1) :
       /\ result.Lines[m].Type = Added
       /\ result.Lines[n].Type = Equal
       /\ lines1[result.Lines[n].LineNo1] # lines2[result.Lines[n].LineNo2]

\* C7: every highlight ends within the rune length of its record's Content, and
\* the highlights of a record are strictly ascending by Start and do not overlap.
C7_HighlightsBoundedSorted ==
  pc = "done" =>
    \A n \in RecordIndexes :
      LET r == result.Lines[n]
          hs == r.Highlights
      IN /\ \A k \in 1..Len(hs) : hs[k].End <= Len(r.Content)
         /\ \A k \in 1..(Len(hs) - 1) :
              hs[k].Start < hs[k + 1].Start /\ hs[k].End <= hs[k + 1].Start

\* A record with a multi-byte rune whose last highlight ends at its last rune
\* and that carries more than one highlight.
C7_Witness ==
  /\ pc = "done"
  /\ \E n \in RecordIndexes :
       LET r == result.Lines[n] IN
       /\ Len(r.Highlights) >= 2
       /\ r.Highlights[Len(r.Highlights)].End = Len(r.Content)
       /\ ByteOffset(r.Content, Len(r.Content)) > Len(r.Content)

\* C8: every highlight of every record has End > Start.
C8_NoZeroWidthHighlight ==
  pc = "done" =>
    \A n \in RecordIndexes :
      \A k \in 1..Len(result.Lines[n].Highlights) :
        result.Lines[n].Highlights[k].End > result.Lines[n].Highlights[k].Start

\* C9: the result does not depend on the order in which Go visits the entries of
\* the TokenPatterns map while the engine is built, the one thing that can differ
\* between two invocations with the same inputs and configuration.
C9_Deterministic ==
  pc = "done" =>
    \A order \in MapOrders(engine.options.TokenPatterns) :
      LET again == NewEngine(engine.options, order) IN
      /\ ~again.panicked
      /\ DiffLines(again, lines1, lines2, file1Name, file2Name) = result

\* A result with token highlights from an engine whose TokenPatterns map can be
\* visited in more than one order.
C9_Witness ==
  /\ pc = "done"
  /\ Cardinality(MapOrders(engine.options.TokenPatterns)) > 1
  /\ \E n \in RecordIndexes :
       /\ result.Lines[n].Highlights # << >>
       /\ result.Lines[n].Highlights # << Highlight(0, Len(result.Lines[n].Content)) >>

\* C10: NewEngine returns an engine for every options value: a TokenPatterns
\* entry that does not compile is dropped, the others and the built-in
\* tokenizers are registered.
C10_NewEngineNeverPanics ==
  pc # "start" =>
    /\ panicIn # "NewEngine"
    /\ DOMAIN engine.tokenizers =
         DefaultExts \cup {ext \in DOMAIN engine.options.TokenPatterns :
                             Compiles(engine.options.TokenPatterns[ext])}

\* The configured ignore patterns that compile, in their configured order.
ValidIgnorePatterns == SelectSeq(engine.options.IgnorePatterns, Compiles)

\* line after the patterns are applied one after the other, in the given order.
AppliedInOrder(line, patterns) ==
  LET applied[k \in 0..Len(patterns)] ==
        IF k = 0 THEN line ELSE ReplaceAllEmpty(patterns[k], applied[k - 1], 0)
  IN applied[Len(patterns)]

\* The reverse of a sequence.
Reversed(s) == [k \in 1..Len(s) |-> s[Len(s) + 1 - k]]

\* The lines of both inputs of the comparison.
InputLines == {lines1[n] : n \in 1..Len(lines1)} \cup {lines2[n] : n \in 1..Len(lines2)}

\* C11: an ignore pattern that does not compile never makes NewEngine fail (only
\* a token pattern can), the engine holds exactly the patterns that compile, in
\* their configured order, and normalizeLine applies exactly these, in that order.
C11_InvalidIgnorePatternsDropped ==
  /\ panicIn = "NewEngine" =>
       \E ext \in DOMAIN engine.options.TokenPatterns :
         ~Compiles(engine.options.TokenPatterns[ext])
  /\ pc \in {"ready", "done"} => engine.ignorePatterns = ValidIgnorePatterns
  /\ pc = "done" =>
       \A line \in InputLines :
         normalizeLine(engine, line) =
           foldWhitespace(engine, AppliedInOrder(line, ValidIgnorePatterns))

\* A comparison by an engine configured with a pattern that does not compile and
\* two that do, on a line where the order of the two matters.
C11_Witness ==
  /\ pc = "done"
  /\ \E k \in 1..Len(engine.options.IgnorePatterns) :
       ~Compiles(engine.options.IgnorePatterns[k])
  /\ Len(ValidIgnorePatterns) = 2
  /\ \E line \in InputLines :
       /\ AppliedInOrder(line, ValidIgnorePatterns) # line
       /\ AppliedInOrder(line, ValidIgnorePatterns) #
            AppliedInOrder(line, Reversed(ValidIgnorePatterns))

\* DiffFiles was called in this run of the program.
DiffFilesCalled == opened # << >>

\* Reading the file fails: it cannot be opened or the scanner reports an error.
Unreadable(file) == fs[file].status # FileOk

\* C12: when file1 or file2 cannot be opened or read, DiffFiles returns an error
\* and a nil result without comparing; no file is read twice, and file2 is not
\* read when reading file1 failed. With both files readable it returns the
\* result of DiffLines on their lines and no error.
C12_DiffFilesReadFailure ==
  DiffFilesCalled =>
    /\ Unreadable(File1) => err # "" /\ result = NoResult /\ opened = << File1 >>
    /\ (~Unreadable(File1) /\ Unreadable(File2)) =>
         err # "" /\ result = NoResult /\ opened = << File1, File2 >>
    /\ (~Unreadable(File1) /\ ~Unreadable(File2)) =>
         /\ err = ""
         /\ opened = << File1, File2 >>
         /\ result = DiffLines(engine, fs[File1].lines, fs[File2].lines, File1, File2)

\* DiffFiles returned after reading file1 failed while file2 was readable.
C12_Witness ==
  /\ DiffFilesCalled
  /\ Unreadable(File1)
  /\ ~Unreadable(File2)
  /\ mpc = "exit"
  /\ exitCode = 1

\* The records of the result whose Type is not Equal, in order.
ChangedRecords == SelectSeq(result.Lines, LAMBDA r : r.Type # Equal)

\* C13: HasChanges() is true exactly when some record is not Equal, which is
\* exactly when GetStats() gives added + removed > 0.
C13_HasChangesIffNotAllEqual ==
  pc = "done" =>
    /\ HasChanges(result) <=> Len(ChangedRecords) > 0
    /\ HasChanges(result) <=> GetStats(result)[1] + GetStats(result)[2] > 0
    /\ GetStats(result)[1] + GetStats(result)[2] = Len(ChangedRecords)

\* A result with changes whose only changed records are Removed, beside Equal
\* records.
C13_Witness ==
  /\ pc = "done"
  /\ HasChanges(result)
  /\ GetStats(result)[1] = 0
  /\ GetStats(result)[2] > 0
  /\ GetStats(result)[3] > 0

\* What the call of goroutine g returns when it runs alone on the engine and the
\* slices as they were when the goroutines were started.
SequentialResult(g) ==
  DiffLines(atStart.engine, atStart.heap[calls[g].lines1], atStart.heap[calls[g].lines2],
            calls[g].file1Name, calls[g].file2Name)

\* C14: while two calls of DiffLines run on one engine in any interleaving, the
\* engine and the callers' line slices stay as they were, and each call returns
\* what it returns when it runs alone.
C14_ConcurrentDiffLinesSafe ==
  gpc # << >> =>
    /\ engine = atStart.engine
    /\ heap = atStart.heap
    /\ \A g \in Goroutines : gpc[g] = "returned" => rets[g] = SequentialResult(g)

\* Both calls have returned results with changes from an engine whose
\* normalization changes the lines they share.
C14_Witness ==
  /\ gpc # << >>
  /\ \A g \in Goroutines : gpc[g] = "returned" /\ HasChanges(rets[g])
  /\ calls[1] # calls[2]
  /\ \E id \in DOMAIN heap : normalizeLines(engine, heap[id]) # heap[id]

\* A tokenizer is registered under the configured language hint.
HintRegistered ==
  engine.options.Language # << >> /\ engine.options.Language \in DOMAIN engine.tokenizers

\* The tokenizer the priority rule names for the comparison made: the one of the
\* registered hint, else of the extension of file 1, else of file 2, else the
\* default tokenizer.
PriorityTokenizer ==
  CASE HintRegistered -> engine.tokenizers[engine.options.Language]
    [] ~HintRegistered /\ Ext(file1Name) \in DOMAIN engine.tokenizers ->
         engine.tokenizers[Ext(file1Name)]
    [] ~HintRegistered /\ Ext(file1Name) \notin DOMAIN engine.tokenizers
         /\ Ext(file2Name) \in DOMAIN engine.tokenizers ->
         engine.tokenizers[Ext(file2Name)]
    [] OTHER -> engine.defaultTokenizer

\* C15: the comparison uses the tokenizer of the registered language hint, else
\* the one registered for the extension of file 1, else of file 2, else the
\* default one; its records are those computed with that tokenizer.
C15_TokenizerPriority ==
  pc = "done" =>
    /\ selectTokenizer(engine, file1Name, file2Name) = PriorityTokenizer
    /\ result.Lines = assemble(engine, lines1, lines2, PriorityTokenizer,
                               matchLines(engine, lines1, lines2),
                               initialLineNo, initialLineNo)

\* A comparison with a registered hint whose tokenizer differs from the one
\* registered for the extension of file 1, and with intra-line highlights that
\* the two tokenizers compute differently.
C15_Witness ==
  /\ pc = "done"
  /\ HintRegistered
  /\ Ext(file1Name) \in DOMAIN engine.tokenizers
  /\ engine.tokenizers[Ext(file1Name)] # engine.tokenizers[engine.options.Language]
  /\ result.Lines # assemble(engine, lines1, lines2, engine.tokenizers[Ext(file1Name)],
                             matchLines(engine, lines1, lines2),
                             initialLineNo, initialLineNo)

\* The lines with every run of whitespace folded to one space and the ends
\* trimmed.
WhitespaceFolded(lines) == [n \in 1..Len(lines) |-> Join(Fields(lines[n], 0), << " " >>)]

\* C16: when the program is started with -w, the engine that computed
\* diffResult has IgnoreWhitespace set, and inputs that differ in whitespace
\* only give a result without changes.
C16_IgnoreWhitespaceReachesEngine ==
  (result # NoResult /\ mpc # "init" /\ flags.ignoreWhitespace) =>
    /\ engine.options.IgnoreWhitespace
    /\ WhitespaceFolded(result.File1Lines) = WhitespaceFolded(result.File2Lines)
         => ~HasChanges(result)

\* C17: in every state of the TUI, with the command palette, the settings modal
\* or the go-to-line dialog open or not, Update answers the key q or ctrl+c with
\* the Quit command.
C17_QuitKeyAlwaysQuits ==
  (tuiModel # << >> /\ lastMsg \in {"q", "ctrl+c"}) => tuiCmd = Quit

\* The diff was computed and main has gone past its report.
Reported == mpc \in {"tui", "exit"} /\ result # NoResult

ResultOpCodes == matchLines(engine, lines1, lines2)

\* The number of lines in the equal opcodes before opcode n.
RECURSIVE equalBefore(_, _)
equalBefore(ops, n) ==
  IF n <= 1 THEN 0
  ELSE equalBefore(ops, n - 1)
       + (IF ops[n - 1].Tag = "e" THEN ops[n - 1].I2 - ops[n - 1].I1 ELSE 0)

\* The number of records before those of opcode n: one per earlier line of
\* either side, the two lines of an Equal record counted once.
recordsBefore(ops, n) == ops[n].I1 + ops[n].J1 - equalBefore(ops, n)

\* The tokenizer of the comparison that gave the result.
ResultTokenizer == selectTokenizer(engine, file1Name, file2Name)

\* The records of the replace opcode op, first of them at index base + 1, are as
\* C19 describes.
ReplaceBlockInOrder(op, base) ==
  LET m == op.I2 - op.I1
      n == op.J2 - op.J1
      paired == IF m < n THEN m ELSE n
  IN /\ \A k \in 0..(paired - 1) :
          /\ result.Lines[base + 2 * k + 1] =
               DiffLine(Removed, lines1[op.I1 + k + 1], op.I1 + k + 1, 0,
                        tokenHighlights(lines1[op.I1 + k + 1], lines2[op.J1 + k + 1],
                                        ResultTokenizer)[1])
          /\ result.Lines[base + 2 * k + 2] =
               DiffLine(Added, lines2[op.J1 + k + 1], 0, op.J1 + k + 1,
                        tokenHighlights(lines1[op.I1 + k + 1], lines2[op.J1 + k + 1],
                                        ResultTokenizer)[2])
     /\ \A k \in paired..(m - 1) :
          result.Lines[base + paired + k + 1] =
            DiffLine(Removed, lines1[op.I1 + k + 1], op.I1 + k + 1, 0,
                     << Highlight(0, Len(lines1[op.I1 + k + 1])) >>)
     /\ \A k \in paired..(n - 1) :
          result.Lines[base + paired + k + 1] =
            DiffLine(Added, lines2[op.J1 + k + 1], 0, op.J1 + k + 1,
                     << Highlight(0, Len(lines2[op.J1 + k + 1])) >>)

\* C19: the records of a Replace of m lines by n lines are, for k below min(m,n),
\* a Removed record for linesA[i1+k] then an Added record for linesB[j1+k], each
\* with the token highlights of that pair, and after them the remaining lines of
\* the longer side in order, Removed or Added, with only their own line number.
C19_ReplaceBlockOrder ==
  pc = "done" =>
    \A n \in 1..Len(ResultOpCodes) :
      ResultOpCodes[n].Tag = "r" =>
        /\ Len(result.Lines) >= recordsBefore(ResultOpCodes, n)
                                + (ResultOpCodes[n].I2 - ResultOpCodes[n].I1)
                                + (ResultOpCodes[n].J2 - ResultOpCodes[n].J1)
        /\ ReplaceBlockInOrder(ResultOpCodes[n], recordsBefore(ResultOpCodes, n))

\* A Replace of two lines by one whose paired records carry token highlights
\* that do not span their lines, followed by the second line as Removed.
C19_Witness ==
  /\ pc = "done"
  /\ ResultOpCodes = << OpCode("r", 0, 2, 0, 1) >>
  /\ Len(result.Lines) = 3
  /\ result.Lines[1].Highlights \notin {<< >>, << Highlight(0, Len(lines1[1])) >>}
  /\ result.Lines[2].Highlights \notin {<< >>, << Highlight(0, Len(lines2[1])) >>}
  /\ result.Lines[3].Type = Removed

\* The values of the field of the records with one of the types, in order.
NumbersOf(types, field) ==
  LET kept == SelectSeq(result.Lines, LAMBDA r : r.Type \in types)
  IN [k \in 1..Len(kept) |-> kept[k][field]]

\* C20: the LineNo1 values of the Equal and Removed records, in order, are
\* 1 .. len(linesA), and the LineNo2 values of the Equal and Added records, in
\* order, are 1 .. len(linesB).
C20_LineNumbersConsecutive ==
  pc = "done" =>
    /\ NumbersOf({Equal, Removed}, "LineNo1") = [k \in 1..Len(lines1) |-> k]
    /\ NumbersOf({Equal, Added}, "LineNo2") = [k \in 1..Len(lines2) |-> k]

\* A result whose records of side B are an Added record, then an Equal one, and
\* whose side A ends with a Removed record.
C20_Witness ==
  /\ pc = "done"
  /\ Len(lines1) = 2
  /\ Len(lines2) = 2
  /\ Len(result.Lines) = 3
  /\ result.Lines[1].Type = Added
  /\ result.Lines[2].Type = Equal
  /\ result.Lines[3].Type = Removed

\* The one highlight [0, runeLength(Content)) of a record.
SpansContent(r) == r.Highlights = << Highlight(0, Len(r.Content)) >>

\* The indexes in result.Lines of the records that are not paired with a line of
\* the other side: those of the delete and insert opcodes, and those of a
\* replace opcode after its min(m, n) pairs.
UnpairedOf(ops, n) ==
  LET m1 == ops[n].I2 - ops[n].I1
      m2 == ops[n].J2 - ops[n].J1
      base == recordsBefore(ops, n)
  IN CASE ops[n].Tag \in {"d", "i"} -> (base + 1)..(base + m1 + m2)
       [] ops[n].Tag = "r" -> (base + 2 * (IF m1 < m2 THEN m1 ELSE m2) + 1)..(base + m1 + m2)
       [] OTHER -> {}

\* C21: every record of a Delete or Insert operation and every spill-over record
\* of an uneven Replace block carries exactly one highlight, [0, rune length of
\* its Content); Equal records carry no highlight.
C21_FullLineHighlights ==
  pc = "done" =>
    /\ \A n \in 1..Len(ResultOpCodes) : \A k \in UnpairedOf(ResultOpCodes, n) :
         /\ k <= Len(result.Lines)
         /\ result.Lines[k].Type # Equal
         /\ SpansContent(result.Lines[k])
    /\ \A k \in 1..Len(result.Lines) :
         result.Lines[k].Type = Equal => result.Lines[k].Highlights = << >>

\* An Equal record, then the record of a deleted or inserted line with a
\* multi-byte rune, whose highlight ends at the rune length of the line.
C21_Witness ==
  /\ pc = "done"
  /\ Len(result.Lines) = 2
  /\ result.Lines[1].Type = Equal
  /\ UnpairedOf(ResultOpCodes, Len(ResultOpCodes)) = {2}
  /\ result.Lines[2].Content = LineVariant
  /\ result.Lines[2].Highlights = << Highlight(0, 6) >>

\* The rune positions a set of spans covers.
Covered(spans) == UNION {s.Start..(s.End - 1) : s \in spans}

\* The maximal runs of consecutive positions of S within p..hi, ascending, as
\* highlights.
RECURSIVE RunsFrom(_, _, _)
RunsFrom(S, p, hi) ==
  IF p > hi THEN << >>
  ELSE IF p \notin S THEN RunsFrom(S, p + 1, hi)
  ELSE LET e == CHOOSE q \in (p + 1)..(hi + 1) :
                  q \notin S /\ \A r \in p..(q - 1) : r \in S
       IN << Highlight(p, e) >> \o RunsFrom(S, e, hi)

\* The merge of a set of spans: the maximal runs of the positions they cover.
MergeOf(spans, hi) == RunsFrom(Covered(spans), 0, hi)

\* The operations of the call of tokenHighlights with one of the tags.
OpsTagged(tags) == {ret.opcodes[k] : k \in {n \in 1..Len(ret.opcodes) : ret.opcodes[n].Tag \in tags}}

\* The spans of side A: for each Delete or Replace operation with a non-empty
\* source range, from the Start of its first token to the End of its last.
SourceSpans ==
  {Highlight(ret.leftTokens[op.I1 + 1].Start, ret.leftTokens[op.I2].End) :
     op \in {o \in OpsTagged({"d", "r"}) : o.I2 > o.I1}}

\* The spans of side B, for the Insert and Replace operations.
TargetSpans ==
  {Highlight(ret.rightTokens[op.J1 + 1].Start, ret.rightTokens[op.J2].End) :
     op \in {o \in OpsTagged({"i", "r"}) : o.J2 > o.J1}}

\* The tokens of side A and of side B that an Equal operation covers.
EqualSourceTokens ==
  UNION {{ret.leftTokens[i] : i \in (op.I1 + 1)..op.I2} : op \in OpsTagged({"e"})}

EqualTargetTokens ==
  UNION {{ret.rightTokens[j] : j \in (op.J1 + 1)..op.J2} : op \in OpsTagged({"e"})}

\* The token lies inside one of the highlights.
InsideSome(t, hs) == \E k \in 1..Len(hs) : hs[k].Start <= t.Start /\ t.End <= hs[k].End

\* C22: for every pair of lines, the highlights of side A are the merge of the
\* spans of the Delete and Replace operations with a non-empty source range, from
\* the first token's Start to the last token's End, those of side B the same for
\* Insert and Replace; and no token of an Equal operation lies inside a highlight.
C22_TokenHighlightsFromOperations ==
  callee = "tokenHighlights" =>
    /\ ret.highlights[1] = MergeOf(SourceSpans, Len(args.left))
    /\ ret.highlights[2] = MergeOf(TargetSpans, Len(args.right))
    /\ \A t \in EqualSourceTokens : ~InsideSome(t, ret.highlights[1])
    /\ \A t \in EqualTargetTokens : ~InsideSome(t, ret.highlights[2])

\* Two lines of the default tokenizer with two Replace operations and two Equal
\* tokens between them: two highlights on each side.
C22_Witness ==
  /\ callee = "tokenHighlights"
  /\ args = [left |-> LineBase, right |-> LineVariant, tokenizer |-> defaultTokenPattern]
  /\ Cardinality(EqualSourceTokens) = 2
  /\ SourceSpans = {Highlight(1, 2), Highlight(4, 5)}
  /\ ret.highlights = << << Highlight(1, 2), Highlight(4, 5) >>,
                         << Highlight(1, 3), Highlight(5, 6) >> >>

\* The spans of a list that have End > Start.
NonDegenerate(hs) == {hs[k] : k \in {n \in 1..Len(hs) : hs[n].End > hs[n].Start}}

C24_TokensCoverLine ==
  callee = "Tokenize" =>
    /\ Len(ret) >= 1
    /\ ret[1].Start = 0
    /\ \A k \in 2..Len(ret) : ret[k].Start = ret[k - 1].End
    /\ ret[Len(ret)].End = Len(args.line)

\* C25: every token has End > Start, except that an empty line yields exactly
\* the one token [0,0); a non-empty line in which the pattern has no match yields
\* exactly one token that spans the line.
C25_TokensNonDegenerate ==
  callee = "Tokenize" =>
    /\ args.line = << >> => ret = << Token(<< >>, 0, 0) >>
    /\ args.line # << >> => \A k \in 1..Len(ret) : ret[k].End > ret[k].Start
    /\ (args.line # << >> /\ FindAllStringIndex(args.pattern, args.line) = << >>)
         => ret = << Token(args.line, 0, Len(args.line)) >>

\* C26: token offsets are rune positions: the Value of every token is the runes
\* of the line from Start to End, and the tokens are in ascending order without
\* overlap.
C26_TokenOffsetsAreRunes ==
  callee = "Tokenize" =>
    /\ \A k \in 1..Len(ret) :
         /\ 0 <= ret[k].Start
         /\ ret[k].Start <= ret[k].End
         /\ ret[k].End <= Len(args.line)
         /\ ret[k].Value = [i \in 1..(ret[k].End - ret[k].Start) |-> args.line[ret[k].Start + i]]
    /\ \A k \in 2..Len(ret) : ret[k].Start >= ret[k - 1].End

\* The one token of a comment after a two-byte rune, itself holding a two-byte
\* rune: the match at the bytes [3,6) is the token with the rune span [2,4).
C26_Witness ==
  /\ callee = "Tokenize"
  /\ args = [pattern |-> CommentPattern, line |-> LineComment]
  /\ FindAllStringIndex(CommentPattern, LineComment) = << << 3, 6 >> >>
  /\ ret = << Token(<< "#", "é" >>, 2, 4) >>

\* The operations are in ascending order and contiguous, none of them empty, and
\* their source ranges partition [0, lenA), their target ranges [0, lenB).
Partitions(ops, lenA, lenB) ==
  /\ ops = << >> => (lenA = 0 /\ lenB = 0)
  /\ ops # << >> =>
       /\ ops[1].I1 = 0
       /\ ops[1].J1 = 0
       /\ ops[Len(ops)].I2 = lenA
       /\ ops[Len(ops)].J2 = lenB
  /\ \A k \in 1..Len(ops) :
       /\ ops[k].I1 <= ops[k].I2
       /\ ops[k].J1 <= ops[k].J2
       /\ ops[k].I1 < ops[k].I2 \/ ops[k].J1 < ops[k].J2
  /\ \A k \in 2..Len(ops) :
       /\ ops[k].I1 = ops[k - 1].I2
       /\ ops[k].J1 = ops[k - 1].J2

\* The token operations of the pair of lines tokenHighlights is called on.
PairOpCodes(left, right) ==
  GetOpCodes(tokenValues(Tokenize(ResultTokenizer, left)),
             tokenValues(Tokenize(ResultTokenizer, right)))

\* The token operations of pair k of the replace operation op partition the two
\* token lists.
PairPartitions(op, k) ==
  Partitions(PairOpCodes(lines1[op.I1 + k + 1], lines2[op.J1 + k + 1]),
             Len(Tokenize(ResultTokenizer, lines1[op.I1 + k + 1])),
             Len(Tokenize(ResultTokenizer, lines2[op.J1 + k + 1])))

\* C27: the operations DiffLines walks, over the normalized lines, and those
\* tokenHighlights walks for each pair of a replace block, over the token values,
\* are ascending and contiguous and partition [0, len(seqA)) and [0, len(seqB)).
C27_OperationsPartition ==
  pc = "done" =>
    /\ Partitions(ResultOpCodes, Len(lines1), Len(lines2))
    /\ \A n \in 1..Len(ResultOpCodes) :
         ResultOpCodes[n].Tag = "r" =>
           \A k \in 0..(ResultOpCodes[n].I2 - ResultOpCodes[n].I1 - 1) :
             k < ResultOpCodes[n].J2 - ResultOpCodes[n].J1 =>
               PairPartitions(ResultOpCodes[n], k)

\* Line operations equal then replace, and three token operations for the pair of
\* the replace: replace, equal, replace over the tokens of the default tokenizer.
C27_Witness ==
  /\ pc = "done"
  /\ Len(ResultOpCodes) = 2
  /\ ResultOpCodes[1].Tag = "e"
  /\ ResultOpCodes[2] = OpCode("r", 1, 2, 1, 2)
  /\ lines1[2] = LineBase
  /\ lines2[2] = LineVariant
  /\ PairOpCodes(LineBase, LineVariant) =
       << OpCode("r", 0, 1, 0, 1), OpCode("e", 1, 3, 1, 3), OpCode("r", 3, 4, 3, 4) >>

\* The runes of line from index i on that stay when every run of whitespace is
\* collapsed to one space and both ends are trimmed: the runes that are not
\* whitespace, and the last space of a run that has a rune that is not
\* whitespace before it and after it.
RECURSIVE CollapsedFrom(_, _)
CollapsedFrom(line, i) ==
  IF i > Len(line) THEN << >>
  ELSE (IF \/ line[i] \notin SpaceChars
           \/ /\ \E j \in 1..(i - 1) : line[j] \notin SpaceChars
              /\ i < Len(line)
              /\ line[i + 1] \notin SpaceChars
          THEN << IF line[i] \in SpaceChars THEN " " ELSE line[i] >>
          ELSE << >>)
       \o CollapsedFrom(line, i + 1)

\* The key of a line: the matches of each compiled ignore pattern removed, in
\* configured order, then, if IgnoreWhitespace is set, whitespace collapsed.
KeyOf(line) ==
  IF engine.options.IgnoreWhitespace
    THEN CollapsedFrom(AppliedInOrder(line, ValidIgnorePatterns), 1)
    ELSE AppliedInOrder(line, ValidIgnorePatterns)

\* C28: no Equal record pairs two lines whose keys differ: the keys of
\* linesA[LineNo1-1] and linesB[LineNo2-1] are identical.
C28_EqualRecordsPairEqualKeys ==
  pc = "done" =>
    \A n \in 1..Len(result.Lines) :
      result.Lines[n].Type = Equal =>
        /\ result.Lines[n].LineNo1 \in 1..Len(lines1)
        /\ result.Lines[n].LineNo2 \in 1..Len(lines2)
        /\ KeyOf(lines1[result.Lines[n].LineNo1]) = KeyOf(lines2[result.Lines[n].LineNo2])

\* One Equal record for two lines that differ in whitespace and in a digit, with
\* ignore patterns compiled and IgnoreWhitespace set: both have the key "é x=".
C28_Witness ==
  /\ pc = "done"
  /\ engine.options.IgnoreWhitespace
  /\ Len(engine.ignorePatterns) = 2
  /\ lines1 = << LineBase >>
  /\ lines2 = << LineVariant >>
  /\ Len(result.Lines) = 1
  /\ result.Lines[1].Type = Equal
  /\ KeyOf(LineVariant) = << "é", " ", "x", "=" >>

\* Pair k of the replace operation n: its two lines differ and both its records
\* have no highlight.
PairWithoutHighlight(n, k) ==
  LET op == ResultOpCodes[n]
      base == recordsBefore(ResultOpCodes, n)
  IN /\ lines1[op.I1 + k + 1] # lines2[op.J1 + k + 1]
     /\ result.Lines[base + 2 * k + 1].Highlights = << >>
     /\ result.Lines[base + 2 * k + 2].Highlights = << >>

\* C29: whenever the two lines paired inside a Replace block differ in their
\* text, at least one of the two records of the pair carries a highlight.
C29_DifferingPairHighlighted ==
  pc = "done" =>
    \A n \in 1..Len(ResultOpCodes) :
      ResultOpCodes[n].Tag = "r" =>
        \A k \in 0..(ResultOpCodes[n].I2 - ResultOpCodes[n].I1 - 1) :
          k < ResultOpCodes[n].J2 - ResultOpCodes[n].J1 => ~PairWithoutHighlight(n, k)

\* C30: GetStats() returns (added, removed, unchanged) with removed + unchanged
\* = len(linesA), added + unchanged = len(linesB) and added + removed +
\* unchanged = len(Lines).
C30_StatsAddUp ==
  pc = "done" =>
    /\ GetStats(result)[2] + GetStats(result)[3] = Len(lines1)
    /\ GetStats(result)[1] + GetStats(result)[3] = Len(lines2)
    /\ GetStats(result)[1] + GetStats(result)[2] + GetStats(result)[3] = Len(result.Lines)

\* Two lines against one: one unchanged, one removed, none added.
C30_Witness ==
  /\ pc = "done"
  /\ Len(lines1) = 2
  /\ Len(lines2) = 1
  /\ GetStats(result) = << 0, 1, 1 >>

\* C39: readLinesFromGit and Model.readLinesForRef return the same lines and the
\* same error for the same ref and the same content of the file, the empty file
\* and the WORKTREE ref included.
C39_GitReadersAgree ==
  callee = "readLines" => ret.initial = ret.reloaded

\* C31: after any sequence of key, mouse and window-resize events the offset of
\* the viewport is between 0 and max(0, len(diffResult.Lines) - viewport.height).
C31_OffsetWithinBounds ==
  tuiModel # << >> =>
    /\ tuiModel.viewport.offset >= 0
    /\ tuiModel.viewport.offset <=
         max(0, Len(tuiModel.diffResult.Lines) - tuiModel.viewport.height)

\* No dialog, palette or settings modal is open: a key reaches the main switch.
NoModal(m) == ~m.goToLineActive /\ ~m.showCommand /\ ~m.showSettings

\* The starts of the change blocks of the diff r: the offsets of the records
\* that are not Equal and follow an Equal record or none.
BlockStarts(r) ==
  {n - 1 : n \in {k \in 1..Len(r.Lines) :
                    /\ r.Lines[k].Type # Equal
                    /\ (k = 1 \/ r.Lines[k - 1].Type = Equal)}}

\* The least element of a non-empty set of numbers.
Least(S) == CHOOSE x \in S : \A y \in S : x <= y

\* The block start next_change goes to from `offset`: the first one strictly
\* after it, the first of all after the last one.
NextBlockStart(r, offset) ==
  IF \E c \in BlockStarts(r) : c > offset
    THEN Least({c \in BlockStarts(r) : c > offset})
    ELSE Least(BlockStarts(r))

\* C36: a press of next_change moves the offset of the viewport to the first
\* block start strictly after the current offset, and from the last block start
\* or beyond to the first one.
C36_NextChangeCycles ==
  [][(/\ tuiModel # << >>
      /\ tuiCmd # Quit
      /\ NoModal(tuiModel)
      /\ BlockStarts(tuiModel.diffResult) # {}
      /\ lastMsg' = "n")
     => tuiModel'.viewport.offset =
          NextBlockStart(tuiModel.diffResult, tuiModel.viewport.offset)]_vars

\* The offset of the first record of r whose display line number is at least
\* lineNumber, of the last record when there is none.
GoToTarget(r, lineNumber) ==
  IF \E n \in 1..Len(r.Lines) : displayLineNumber(r.Lines[n]) >= lineNumber
    THEN Least({n \in 1..Len(r.Lines) : displayLineNumber(r.Lines[n]) >= lineNumber}) - 1
    ELSE Len(r.Lines) - 1

\* What Enter in the go-to-line dialog of m leads to, m2 being the model after it.
EnterApplied(m, m2) ==
  IF m.goToLineValue = << >> \/ Atoi(m.goToLineValue) < 1
    THEN /\ m2.goToLineError # ""
         /\ m2.goToLineActive
         /\ m2.viewport.offset = m.viewport.offset
    ELSE /\ ~m2.goToLineActive
         /\ m2.goToLineError = ""
         /\ m2.viewport.offset =
              min(GoToTarget(m.diffResult, Atoi(m.goToLineValue)),
                  max(0, Len(m.diffResult.Lines) - m.viewport.height))

ActiveModals(m) ==
  (IF m.goToLineActive THEN {"goToLine"} ELSE {})
    \cup (IF m.showCommand THEN {"palette"} ELSE {})
    \cup (IF m.showSettings THEN {"settings"} ELSE {})

\* C32: in every state of the TUI at most one of the go-to-line dialog, the
\* command palette and the settings modal is active.
C32_AtMostOneModal ==
  tuiModel # << >> => Cardinality(ActiveModals(tuiModel)) <= 1

\* The entry "Go to line" of the palette was executed: the dialog is open and
\* the palette, which was open, is closed.
C32_Witness ==
  /\ tuiModel # << >>
  /\ lastMsg = KeyEnter
  /\ tuiModel.paletteEntries[tuiModel.paletteIndex + 1].action = "GoToLine"
  /\ ActiveModals(tuiModel) = {"goToLine"}

\* C33: with the default keybindings, Esc leaves no modal open, changes nothing
\* when none was open, and a q pressed right after an Esc returns tea.Quit.
C33_EscThenQuit ==
  [][/\ (tuiModel # << >> /\ tuiCmd # Quit /\ lastMsg' = KeyEsc)
        => /\ ActiveModals(tuiModel') = {}
           /\ ActiveModals(tuiModel) = {} => tuiModel' = tuiModel
     /\ (tuiModel # << >> /\ tuiCmd # Quit /\ lastMsg = KeyEsc /\ lastMsg' = "q")
        => tuiCmd' = Quit]_vars

\* q was pressed after the settings modal had been left with its second entry
\* selected, and the program quits.
C33_Witness ==
  /\ tuiModel # << >>
  /\ lastMsg = "q"
  /\ tuiCmd = Quit
  /\ tuiModel.settingsIndex = 1
  /\ ActiveModals(tuiModel) = {}

\* C34: in every state of the TUI showHelp says whether the help panel is the
\* active panel, and showStats whether the stats panel is.
C34_PanelFlagsAgree ==
  tuiModel # << >> =>
    /\ tuiModel.showHelp = (tuiModel.activePanel = helpPanel)
    /\ tuiModel.showStats = (tuiModel.activePanel = statsPanel)

\* C35: in every state of the TUI paletteIndex is an index of paletteEntries and
\* settingsIndex an index of the settings entries, also after the diff was
\* reloaded with fewer palette entries.
C35_IndexesInRange ==
  tuiModel # << >> =>
    /\ 0 <= tuiModel.paletteIndex
    /\ tuiModel.paletteIndex < Len(tuiModel.paletteEntries)
    /\ 0 <= tuiModel.settingsIndex
    /\ tuiModel.settingsIndex < Len(SettingsEntries)

\* A branch was selected and the reloaded diff has 11 palette entries, three
\* less than the first diff; the selection is on the last of them.
C35_Witness ==
  /\ tuiModel # << >>
  /\ lastMsg = "]"
  /\ Len(paletteEntriesOf(GitDiff)) = 14
  /\ Len(tuiModel.paletteEntries) = 11
  /\ tuiModel.paletteIndex = 10

\* The model cannot reload a diff: git is not enabled, there is no branch, or
\* no engine is attached.
CannotReload(m) ==
  ~m.gitCtx.Enabled \/ Len(m.gitCtx.Branches) = 0 \/ m.diffEngine = NilEngine

\* C38: a press of next_branch or prev_branch changes neither the diff nor the
\* selected ref when git is not enabled, no branch exists or no engine is
\* attached; when reading a ref fails it leaves the diff and the palette
\* entries as they were and stores the error in m.err.
C38_BranchSwitchFailures ==
  [][(/\ tuiModel # << >>
      /\ tuiCmd # Quit
      /\ ActiveModals(tuiModel) = {}
      /\ lastMsg' \in {"]", "["})
     => /\ CannotReload(tuiModel)
           => /\ tuiModel'.diffResult = tuiModel.diffResult
              /\ tuiModel'.gitCtx.Ref2 = tuiModel.gitCtx.Ref2
        /\ (~CannotReload(tuiModel) /\ lastGit'.readFails)
           => /\ tuiModel'.diffResult = tuiModel.diffResult
              /\ tuiModel'.paletteEntries = tuiModel.paletteEntries
              /\ tuiModel'.err # ""]_vars

====
